---- MODULE Spec2Model ----
(***************************************************************************)
(* A model of the SlippiStats replay decoder (slippistats/parse.py), the   *)
(* frame collector of Game (slippistats/game.py), the recorder version     *)
(* comparison and the post-frame payload decoder (slippistats/event.py).   *)
(*                                                                         *)
(* Optional values (Python None) are sequences of length at most one:      *)
(* <<>> is None and <<v>> is the value v.  The raw payload of an event is  *)
(* its position in the stream (1 for the first event), so the payloads of  *)
(* two events differ; 0 stands for "no payload stored" (None).             *)
(***************************************************************************)
EXTENDS Integers, Sequences, FiniteSets, TLC

VARIABLES
    pc,             \* position of the decoder in _parse / _parse_events
    current_frame,  \* _parse_events: the frame in construction (<<>> is None)
    bytes_read,     \* _parse_events: bytes_read
    total_size,     \* _parse_events: total_size (0 for in-progress replays)
    skip_frames,    \* parse(..., skip_frames)
    event,          \* _parse_events: kind of the last decoded event
    pos,            \* position of the stream inside raw, in bytes
    codes,          \* codes of the events read from the stream so far
    lastFrame,      \* highest frame index among the frame events read (<<>>: none)
    calls,          \* handlers invoked so far, in order
    emitted,        \* frames handed to the frame handler, in order
    start,          \* Game.start
    frames,         \* Game.frames
    end,            \* Game.end
    metadata,       \* Game.metadata
    computer,       \* the StatsComputer (<<>> while none is constructed)
    arg,            \* input of the pure function under check
    res             \* its result (<<>> before the call)

vars == <<pc, current_frame, bytes_read, total_size, skip_frames, event, pos,
          codes, lastFrame, calls, emitted, start, frames, end, metadata,
          computer, arg, res>>

(***************************************************************************)
(* Program constants                                                       *)
(***************************************************************************)
FIRST_FRAME_INDEX == -123

EVENT_PAYLOADS == 53
GAME_START == 54
FRAME_PRE == 55
FRAME_POST == 56
GAME_END == 57
FRAME_START == 58
ITEM == 59
FRAME_END == 60
GECKO_LIST == 61
MESSAGE_SPLITTER == 16

NumPorts == 4

(***************************************************************************)
(* Bounds                                                                  *)
(***************************************************************************)
MaxFrames == 2      \* frame indices FIRST_FRAME_INDEX .. FIRST_FRAME_INDEX + MaxFrames - 1
MaxEvents == 3      \* events read after the first GameStart
MaxDeliveries == 6  \* frames delivered to the collector on its own
MaxSlots == 4       \* valid frame indices a caller may deliver to the collector
DeclaredLength == 12 \* the non-zero declared length of raw, in bytes, after the payload table
MaxVersion == 2     \* major, minor and revision range over 0..MaxVersion
MaxTrail == 2       \* bytes a post-frame payload may hold after its last known block
MaxStocks == 1      \* stocks a player holds on the last frame, at most
FrameCount == 6     \* frames of a game the detectors run over
MaxMarked == 3      \* frames of both players that are not the idle frame, at most
MaxPasses == 2      \* detector passes made on one primed computer

None == <<>>
Some(v) == <<v>>

\* Indices a frame event of the stream may carry.
FrameIndices == FIRST_FRAME_INDEX..(FIRST_FRAME_INDEX + MaxFrames - 1)
\* Indices of the frames a caller may deliver to the collector.
DeliveryIndices == (FIRST_FRAME_INDEX - 1)..(FIRST_FRAME_INDEX + MaxSlots - 1)

(***************************************************************************)
(* Frame (event.py)                                                        *)
(***************************************************************************)
\* The event _parse_event returned last: its type ("Start", "Frame", "End",
\* or "none" for None) and, for a Frame.Event, its id.frame.
Event(type, frame) == [type |-> type, frame |-> frame]

\* Frame.Port.Data.__init__
Data == [pre |-> 0, post |-> 0]

\* Frame.Port.__init__
Port == [leader |-> Data, follower |-> None]

\* Frame.__init__; frozen is FALSE while ports and items are lists
Frame(index) ==
    [index |-> index, ports |-> [p \in 0..(NumPorts - 1) |-> None],
     items |-> <<>>, start |-> None, end |-> None, frozen |-> FALSE]

\* Frame._finalize: ports and items become tuples
_finalize(f) == [f EXCEPT !.frozen = TRUE]

(***************************************************************************)
(* Game._add_frame (game.py)                                               *)
(***************************************************************************)
\* Python list item assignment lst[i] = v, i counted from 0; a negative i
\* counts from the end, and an index outside the list raises IndexError.
ListSetItem(lst, i, v) ==
    IF i >= 0 /\ i < Len(lst)
    THEN [raised |-> FALSE, list |-> [lst EXCEPT ![i + 1] = v]]
    ELSE IF i < 0 /\ Len(lst) + i >= 0
    THEN [raised |-> FALSE, list |-> [lst EXCEPT ![Len(lst) + i + 1] = v]]
    ELSE [raised |-> TRUE, list |-> lst]

\* Game._add_frame: the new list, or raised (ValueError 'missing frames',
\* IndexError) with the list as it was.
_add_frame(fs, frame) ==
    LET idx == frame.index - FIRST_FRAME_INDEX
        count == Len(fs)
    IN  IF idx = count
        THEN [raised |-> FALSE, list |-> Append(fs, frame)]
        ELSE IF idx < count
        THEN ListSetItem(fs, idx, frame)
        ELSE [raised |-> TRUE, list |-> fs]

(***************************************************************************)
(* Frame accumulation (parse.py)                                           *)
(***************************************************************************)
\* _pre_frame / _post_frame, lines 195-205 and 232-242: the port's record is
\* created when missing, the follower's when the event is a follower's, and
\* the raw payload is stored unparsed in _pre or _post.
StoreData(f, port, is_follower, half, raw_data) ==
    LET p0 == IF f.ports[port] = None THEN Port ELSE f.ports[port][1]
        p1 == IF is_follower /\ p0.follower = None
              THEN [p0 EXCEPT !.follower = Some(Data)]
              ELSE p0
        p2 == IF ~is_follower
              THEN [p1 EXCEPT !.leader = [@ EXCEPT ![half] = raw_data]]
              ELSE [p1 EXCEPT !.follower = Some([@[1] EXCEPT ![half] = raw_data])]
    IN  [f EXCEPT !.ports = [@ EXCEPT ![port] = Some(p2)]]

\* The frame a caller hands to the collector: finalized, with one pre-frame
\* payload on port 0.
DeliveredFrame(index, raw_data) ==
    _finalize(StoreData(Frame(index), 0, FALSE, "pre", raw_data))

\* handlers[Frame](frame) with Game's handlers: the call is logged, and
\* Game._add_frame stores the frame or raises, which ends the parse; the
\* decoder goes on at next_pc otherwise.
HandFrame(f, next_pc) ==
    LET r == _add_frame(frames, f)
    IN  /\ emitted' = Append(emitted, f)
        /\ calls' = Append(calls, "frame")
        /\ frames' = r.list
        /\ pc' = IF r.raised THEN "error" ELSE next_pc

(***************************************************************************)
(* The collector on its own: a caller delivers finalized frames to         *)
(* Game._add_frame.  The payload of the n-th delivery is n.                *)
(***************************************************************************)
InitIdle ==
    /\ current_frame = None
    /\ bytes_read = 0
    /\ event = Event("none", 0)
    /\ pos = 0
    /\ codes = <<>>
    /\ lastFrame = None
    /\ calls = <<>>
    /\ emitted = <<>>
    /\ start = None
    /\ frames = <<>>
    /\ end = None
    /\ metadata = None

InitGame ==
    /\ InitIdle
    /\ pc = "collect"
    /\ total_size = 0
    /\ skip_frames = FALSE
    /\ arg = None
    /\ res = None
    /\ computer = None

Deliver ==
    /\ pc = "collect"
    /\ Len(emitted) < MaxDeliveries
    /\ \E index \in DeliveryIndices :
          HandFrame(DeliveredFrame(index, Len(emitted) + 1), "collect")
    /\ UNCHANGED <<current_frame, bytes_read, total_size, skip_frames, event,
                   pos, codes, lastFrame, start, end, metadata, arg, res, computer>>

NextGame == Deliver

SpecGame == InitGame /\ [][NextGame]_vars

\* The indices of the frames handed to the frame handler, in order.
EmittedIndices == [i \in 1..Len(emitted) |-> emitted[i].index]

\* Seed scenario 6 of the specification.
RollbackScenario ==
    <<FIRST_FRAME_INDEX, FIRST_FRAME_INDEX + 1, FIRST_FRAME_INDEX + 2,
      FIRST_FRAME_INDEX + 1, FIRST_FRAME_INDEX + 2, FIRST_FRAME_INDEX + 3>>

\* C1, second half: after the deliveries -123, -122, -121, -122, -121, -120
\* there is exactly one stored frame per index, and -122 and -121 hold the
\* payloads of their second arrival.
C1_ScenarioResolved ==
    (pc = "collect" /\ EmittedIndices = RollbackScenario) =>
        frames = <<emitted[1], emitted[4], emitted[5], emitted[6]>>

\* C1, first half: every delivered frame whose index is lower than the next
\* expected index (len(frames) - 123) replaces the stored frame at its own
\* slot, index + 123, leaving the length and every other slot as they were,
\* and a frame whose index equals the next expected index is appended.
C1_DeliveryStep ==
    (pc = "collect" /\ emitted' # emitted) =>
        LET f == emitted'[Len(emitted')]
            idx == f.index - FIRST_FRAME_INDEX
            count == Len(frames)
        IN  /\ idx < count =>
                /\ pc' = "collect"
                /\ Len(frames') = count
                /\ (idx + 1) \in 1..count
                /\ frames'[idx + 1] = f
                /\ \A j \in 1..count : j # idx + 1 => frames'[j] = frames[j]
            /\ idx = count => frames' = Append(frames, f)

\* C1: for any sequence of finalized frames delivered to Game's frame
\* collector, a frame whose index is lower than the next expected index
\* replaces the stored frame at its own slot in place, without changing the
\* list length, and a frame whose index equals the next expected index is
\* appended; so the index stream -123, -122, -121, -122, -121, -120 leaves
\* exactly one stored frame per index, -122 and -121 holding the
\* second-arrival payloads.
C1_RollbackReplacesInPlace == [][C1_DeliveryStep]_vars /\ []C1_ScenarioResolved

\* The scenario of C1 is reached.
C1_ScenarioReached == pc = "collect" /\ EmittedIndices = RollbackScenario

(***************************************************************************)
(* The decoder (parse.py).  The stream is read one whole event at a time;  *)
(* what the next event is, is the file's choice.                           *)
(***************************************************************************)
\* _parse_event_payloads: the payload size table of the file.
payload_sizes ==
    (GAME_START :> 2) @@ (FRAME_PRE :> 1) @@ (FRAME_POST :> 1) @@
    (GAME_END :> 2) @@ (FRAME_START :> 1) @@ (ITEM :> 1) @@ (FRAME_END :> 1) @@
    (GECKO_LIST :> 3) @@ (MESSAGE_SPLITTER :> 2)

\* Codes the file may hold that its payload table does not list.
UnlistedCodes == {GECKO_LIST + 1}

\* Ports and follower flags the frame events of the stream carry.
EventPorts == {0}
EventFollower == {FALSE}

\* _parse_event: the bytes one event takes, its code byte included.
EventBytes(code) == 1 + payload_sizes[code]

SmallestEvent ==
    CHOOSE n \in {EventBytes(c) : c \in DOMAIN payload_sizes} :
        \A c \in DOMAIN payload_sizes : n <= EventBytes(c)

\* The condition of the while loop of _parse_events.
LoopCond == (total_size = 0 \/ bytes_read < total_size) /\ event.type # "End"

\* The stream holds whole events: with a declared length, an event lies
\* inside raw and leaves room for none or for a whole event after it.
Fits(code) ==
    \/ total_size = 0
    \/ LET left == total_size - (pos + EventBytes(code))
       IN  left = 0 \/ left >= SmallestEvent

\* The next event of the stream may be one of this code.
CanRead(code) ==
    /\ pc = "loop"
    /\ LoopCond
    /\ Fits(code)
    /\ (Len(codes) <= MaxEvents \/ code = GAME_END)

\* _parse_events, lines 411-412: the event is read and counted.
ReadEvent(code) ==
    /\ bytes_read' = bytes_read + EventBytes(code)
    /\ codes' = Append(codes, code)

Max(a, b) == IF a >= b THEN a ELSE b

\* parse(source, handlers, skip_frames) of a file whose raw length is zero
\* (in progress) or DeclaredLength, before the first event is read.
Init ==
    /\ InitIdle
    /\ pc = "start"
    /\ total_size \in {0, DeclaredLength}
    /\ skip_frames \in BOOLEAN
    /\ arg = None
    /\ res = None
    /\ computer = None

\* _parse_events, lines 394-408: the first event must be GameStart; it is
\* decoded and its version kept, and no handler is invoked.
ReadGameStart ==
    /\ pc = "start"
    /\ \E code \in {GAME_START, FRAME_PRE} :
          IF code = GAME_START
          THEN /\ event' = Event("Start", 0)
               /\ bytes_read' = bytes_read + payload_sizes[code] + 1
               /\ pos' = pos + 1 + payload_sizes[code]
               /\ codes' = Append(codes, code)
               /\ pc' = "loop"
          ELSE /\ pc' = "error"
               /\ pos' = pos + 1
               /\ UNCHANGED <<event, bytes_read, codes>>
    /\ UNCHANGED <<current_frame, total_size, skip_frames, lastFrame, calls,
                   emitted, start, frames, end, metadata, arg, res, computer>>

\* A handler that closes the frame in construction only when the event's
\* index is later, so that a rollback starts over without handing on.
ClosesOnlyForward(index) == current_frame # None /\ current_frame[1].index < index

\* Lines 187-190 of every frame event handler: an event of another index
\* closes the frame in construction.
Closes(index) == current_frame # None /\ current_frame[1].index # index

\* Lines 187-193: the frame the event is folded into.
Open(index) ==
    IF current_frame # None /\ current_frame[1].index = index
    THEN current_frame[1]
    ELSE Frame(index)

\* A frame event handler as a whole: the frame in construction is finalized
\* and handed to the frame handler when the index changes, and f, the frame
\* with this event folded in, is the frame in construction afterwards.
Fold(code, index, f) ==
    /\ CanRead(code)
    /\ ReadEvent(code)
    /\ pos' = pos + EventBytes(code)
    /\ event' = Event("Frame", index)
    /\ lastFrame' = IF lastFrame = None THEN Some(index)
                    ELSE Some(Max(lastFrame[1], index))
    /\ IF Closes(index)
       THEN /\ HandFrame(_finalize(current_frame[1]), "loop")
            /\ current_frame' =
                  IF _add_frame(frames, _finalize(current_frame[1])).raised
                  THEN Some(_finalize(current_frame[1]))
                  ELSE Some(f)
       ELSE /\ current_frame' = Some(f)
            /\ UNCHANGED <<pc, emitted, calls, frames>>
    /\ UNCHANGED <<total_size, skip_frames, start, end, metadata, arg, res, computer>>

_pre_frame ==
    \E index \in FrameIndices, port \in EventPorts,
       is_follower \in EventFollower :
        Fold(FRAME_PRE, index,
             StoreData(Open(index), port, is_follower, "pre", Len(codes) + 1))

_post_frame ==
    \E index \in FrameIndices, port \in EventPorts,
       is_follower \in EventFollower :
        Fold(FRAME_POST, index,
             StoreData(Open(index), port, is_follower, "post", Len(codes) + 1))

\* items.append(Frame.Item._parse(event.raw_data))
_item_frame ==
    \E index \in FrameIndices :
        Fold(ITEM, index,
             [Open(index) EXCEPT !.items = Append(@, "Item")])

\* items.append(Frame.Start._parse(event.raw_data))
_start_frame ==
    \E index \in FrameIndices :
        Fold(FRAME_START, index,
             [Open(index) EXCEPT !.items = Append(@, "Start")])

\* current_frame.end = Frame.End._parse(event.raw_data)
_end_frame ==
    \E index \in FrameIndices :
        Fold(FRAME_END, index, [Open(index) EXCEPT !.end = Some("End")])

\* A GameStart event inside the loop: EVENT_TYPE_PARSE has no entry for it,
\* so the start handler is handed None; then the seek of skip_frames, whose
\* addition to bytes_read stays local to _game_start.
_game_start ==
    /\ CanRead(GAME_START)
    /\ ReadEvent(GAME_START)
    /\ event' = Event("none", 0)
    /\ calls' = Append(calls, "start(None)")
    /\ start' = None
    /\ pos' = IF skip_frames /\ total_size # 0
              THEN (pos + EventBytes(GAME_START))
                   + (total_size - (bytes_read + EventBytes(GAME_START))
                      - payload_sizes[GAME_END] - 1)
              ELSE pos + EventBytes(GAME_START)
    /\ UNCHANGED <<pc, current_frame, total_size, skip_frames, lastFrame,
                   emitted, frames, end, metadata, arg, res, computer>>

\* handlers[End](event); the frame in construction is passed back.
_game_end ==
    /\ CanRead(GAME_END)
    /\ ReadEvent(GAME_END)
    /\ pos' = pos + EventBytes(GAME_END)
    /\ event' = Event("End", 0)
    /\ calls' = Append(calls, "end")
    /\ end' = Some("End")
    /\ UNCHANGED <<pc, current_frame, total_size, skip_frames, lastFrame,
                   emitted, start, frames, metadata, arg, res, computer>>

\* MessageSplitter: _do_nothing returns None, which _parse_events assigns to
\* current_frame.
_do_nothing ==
    /\ CanRead(MESSAGE_SPLITTER)
    /\ ReadEvent(MESSAGE_SPLITTER)
    /\ pos' = pos + EventBytes(MESSAGE_SPLITTER)
    /\ event' = Event("none", 0)
    /\ current_frame' = None
    /\ UNCHANGED <<pc, total_size, skip_frames, lastFrame, calls, emitted,
                   start, frames, end, metadata, arg, res, computer>>

\* GeckoList is listed in the payload table and read by its size, but the
\* jump table `thing` has no entry for its code: thing[event_code] raises
\* KeyError.
ThingKeyError ==
    /\ CanRead(GECKO_LIST)
    /\ ReadEvent(GECKO_LIST)
    /\ pos' = pos + EventBytes(GECKO_LIST)
    /\ event' = Event("none", 0)
    /\ pc' = "error"
    /\ UNCHANGED <<current_frame, total_size, skip_frames, lastFrame, calls,
                   emitted, start, frames, end, metadata, arg, res, computer>>

\* _parse_event, lines 116-119: a code the payload table does not list, or
\* the byte after raw when the stream was moved past its events, raises
\* ValueError.
UnexpectedEventType ==
    /\ pc = "loop"
    /\ LoopCond
    /\ \/ \E code \in UnlistedCodes : Len(codes) <= MaxEvents
       \/ (total_size # 0 /\ pos >= total_size)
    /\ pos' = pos + 1
    /\ pc' = "error"
    /\ UNCHANGED <<current_frame, bytes_read, total_size, skip_frames, event,
                   codes, lastFrame, calls, emitted, start, frames, end,
                   metadata, arg, res, computer>>

\* _parse_events, lines 481-483: after the loop the frame in construction,
\* if any, is finalized and handed to the frame handler.
ExitLoop ==
    /\ pc = "loop"
    /\ ~LoopCond
    /\ IF current_frame # None
       THEN HandFrame(_finalize(current_frame[1]), "metadata")
       ELSE /\ pc' = "metadata"
            /\ UNCHANGED <<emitted, calls, frames>>
    /\ UNCHANGED <<current_frame, bytes_read, total_size, skip_frames, event,
                   pos, codes, lastFrame, start, end, metadata, arg, res, computer>>

\* Metadata._parse, lines 66-69: the duration, None without lastFrame.
Duration(json) ==
    IF json.lastFrame = None THEN None
    ELSE Some(1 + json.lastFrame[1] - FIRST_FRAME_INDEX)

\* The lastFrame the recorder wrote: the highest frame index of the game,
\* one below the first index when the game has no frame.  Events the decoder
\* skipped may have carried higher indices.
RecordedLastFrame ==
    LET seen == IF lastFrame = None THEN FIRST_FRAME_INDEX - 1 ELSE lastFrame[1]
    IN  IF pos = bytes_read THEN {seen}
        ELSE {i \in FrameIndices \cup {seen} : i >= seen}

\* _parse, lines 499-507: the literal key must follow the events; then the
\* raw and the parsed metadata are handed to their handlers.
ParseMetadata ==
    /\ pc = "metadata"
    /\ IF total_size = 0 \/ pos = total_size
       THEN \E lf \in RecordedLastFrame :
              /\ calls' = calls \o <<"metadata_raw", "metadata">>
              /\ metadata' = Some([duration |-> Duration([lastFrame |-> Some(lf)])])
              /\ pc' = "done"
       ELSE /\ pc' = "error"
            /\ UNCHANGED <<calls, metadata>>
    /\ UNCHANGED <<current_frame, bytes_read, total_size, skip_frames, event,
                   pos, codes, lastFrame, emitted, start, frames, end, arg, res, computer>>

Next ==
    \/ ReadGameStart
    \/ _pre_frame
    \/ _post_frame
    \/ _item_frame
    \/ _start_frame
    \/ _end_frame
    \/ _game_start
    \/ _game_end
    \/ _do_nothing
    \/ ThingKeyError
    \/ UnexpectedEventType
    \/ ExitLoop
    \/ ParseMetadata

Spec == Init /\ [][Next]_vars

(***************************************************************************)
(* Claims about the decoder                                                *)
(***************************************************************************)
FrameCodes == {FRAME_PRE, FRAME_POST, ITEM, FRAME_START, FRAME_END}

\* The step reads one event of the stream, of this code.
Reads(code) == codes' = Append(codes, code)

ReadsFrameEvent == \E code \in FrameCodes : Reads(code)

\* The stream read so far is well formed: GameStart comes first and only
\* there.
WellFormedStream ==
    /\ codes # <<>>
    /\ codes[1] = GAME_START
    /\ \A i \in 2..Len(codes) : codes[i] # GAME_START

\* C2, as claimed: the frame handler is invoked with frame indices in
\* non-decreasing order and is never handed a frame that a later re-issue of
\* the same index supersedes, so each index is handed once and the indices
\* handed are strictly increasing.
C2_HandlerSeesNoRollback ==
    \A i, j \in 1..Len(emitted) :
        i < j => emitted[i].index < emitted[j].index

\* C2, as amended: the frame in construction is finalized and handed to the
\* frame handler as soon as a frame event of any other index arrives, a
\* lower one included, and nothing else is ever handed to it; so the handler
\* is handed superseded frames, in stream order.
C2_HandedOnEveryIndexChange ==
    [][/\ (pc = "loop" /\ ReadsFrameEvent /\ current_frame # None
             /\ current_frame[1].index # event'.frame)
          => emitted' = Append(emitted, _finalize(current_frame[1]))
       /\ (pc \in {"start", "loop", "metadata"} /\ emitted' # emitted)
          => (current_frame # None
              /\ emitted' = Append(emitted, _finalize(current_frame[1])))]_vars

\* C2, witness: the handler was handed an index again, after a higher one,
\* and the parse completed.
C2_RollbackHanded ==
    /\ pc = "done"
    /\ \E i, j \in 1..Len(emitted) :
          /\ i < j
          /\ emitted[j].index < emitted[i].index
          /\ \E h \in 1..Len(emitted) : h < i /\ emitted[h].index = emitted[j].index

\* C3: for every well-formed stream, the start handler is invoked exactly
\* once, with the decoded Start record, before any frame, end or metadata
\* handler is invoked.
C3_StartHandlerFirstAndOnce ==
    WellFormedStream =>
        /\ calls # <<>> => calls[1] = "start"
        /\ pc = "done" =>
              Cardinality({i \in 1..Len(calls) :
                              calls[i] \in {"start", "start(None)"}}) = 1

\* C4: every frame handler invocation precedes the end handler invocation:
\* once the End record has been delivered, no further frame is emitted.
C4_NoFrameAfterEnd ==
    \A i, j \in 1..Len(calls) :
        (calls[i] = "end" /\ calls[j] = "frame") => j < i

\* Codes the decoder has a branch for in EVENT_TYPE_PARSE or decodes itself.
Understood ==
    {GAME_START, FRAME_PRE, FRAME_POST, GAME_END, FRAME_START, ITEM, FRAME_END}

\* C5: an event whose code is listed in the payload table but is not one the
\* decoder understands (GeckoList, MessageSplitter) is consumed by exactly
\* its declared size and discarded: no handler is invoked, no error is
\* raised, and decoding continues with the next event.
C5_UnknownEventSkipped ==
    [][\A code \in (DOMAIN payload_sizes) \ Understood :
          (pc = "loop" /\ Reads(code)) =>
              /\ pos' = pos + 1 + payload_sizes[code]
              /\ calls' = calls
              /\ pc' = "loop"]_vars

\* C6: a MessageSplitter event leaves the frame in construction untouched,
\* so the frame later emitted for its index holds the data received before
\* and after the splitter, and no frame is lost.
C6_SplitterKeepsFrame ==
    [][(pc = "loop" /\ Reads(MESSAGE_SPLITTER)) =>
          current_frame' = current_frame]_vars

\* C9: with skip_frames and a non-zero declared length the decoder goes from
\* GameStart directly to GameEnd: no frame event is decoded, the frame
\* handler is never invoked, and the end handler receives the GameEnd
\* record.
C9_SkipFramesSkips ==
    (skip_frames /\ total_size # 0) =>
        /\ \A i \in 1..Len(codes) : codes[i] \notin FrameCodes
        /\ \A i \in 1..Len(calls) : calls[i] # "frame"
        /\ pc = "done" => (end # None /\ \E i \in 1..Len(calls) : calls[i] = "end")

\* C10: for every successfully parsed game (all frames requested), rollbacks
\* included, the number of stored frames equals metadata.duration and the
\* first stored frame has index -123.
C10_FramesMatchDuration ==
    (pc = "done" /\ ~skip_frames) =>
        /\ metadata[1].duration = Some(Len(frames))
        /\ frames # <<>> => frames[1].index = FIRST_FRAME_INDEX

\* C11: a FrameStart event for frame index k sets the start field of the
\* frame emitted for k and adds nothing to that frame's items: the items of
\* an emitted frame are Item records only.
C11_FrameStartSetsStart ==
    /\ [][(pc = "loop" /\ Reads(FRAME_START) /\ current_frame' # None) =>
             current_frame'[1].start # None]_vars
    /\ [](\A i \in 1..Len(emitted) :
             \A j \in 1..Len(emitted[i].items) : emitted[i].items[j] = "Item")

(***************************************************************************)
(* Start.SlippiVersion (event.py): comparison with a (major, minor,        *)
(* revision) triple.                                                       *)
(***************************************************************************)
\* SlippiVersion.__ge__, the Sequence branch of three elements.
__ge__(self, other) ==
    \/ self.major > other[1]
    \/ (self.major = other[1] /\ self.minor > other[2])
    \/ (self.minor = other[2] /\ self.revision >= other[3])

\* SlippiVersion.__lt__
__lt__(self, other) == ~__ge__(self, other)

Versions == 0..MaxVersion

idleVars == <<current_frame, bytes_read, total_size, skip_frames, event, pos,
              codes, lastFrame, calls, emitted, start, frames, end, metadata>>

InitVersion ==
    /\ InitIdle
    /\ total_size = 0
    /\ skip_frames = FALSE
    /\ pc = "call"
    /\ arg \in [self : [major : Versions, minor : Versions, revision : Versions],
                other : Versions \X Versions \X Versions]
    /\ res = None
    /\ computer = None

\* The caller evaluates version >= triple and version < triple.
CompareVersion ==
    /\ pc = "call"
    /\ res' = Some([ge |-> __ge__(arg.self, arg.other),
                    lt |-> __lt__(arg.self, arg.other)])
    /\ pc' = "returned"
    /\ UNCHANGED <<arg, computer, idleVars>>

NextVersion == CompareVersion

SpecVersion == InitVersion /\ [][NextVersion]_vars

\* Lexicographic order of (major, minor, revision) triples.
LexGe(a, b) ==
    \/ a[1] > b[1]
    \/ (a[1] = b[1] /\ a[2] > b[2])
    \/ (a[1] = b[1] /\ a[2] = b[2] /\ a[3] >= b[3])

\* C7: comparison of a recorder version with a (major, minor, revision)
\* triple is the lexicographic tuple order: v >= t holds exactly when
\* (v.major, v.minor, v.revision) >= t lexicographically, and v < t holds
\* exactly otherwise.
C7_VersionOrderIsLexicographic ==
    (pc = "returned" /\ res # None /\ "ge" \in DOMAIN res[1]) =>
        LET v == <<arg.self.major, arg.self.minor, arg.self.revision>>
        IN  /\ res[1].ge = LexGe(v, arg.other)
            /\ res[1].lt = ~LexGe(v, arg.other)

(***************************************************************************)
(* Frame.Port.Data.Post._parse (event.py): the payload is read front to    *)
(* back; a read that finds fewer bytes than asked makes unpack raise       *)
(* struct.error.  A populated field holds the offset it was read at.       *)
(***************************************************************************)
\* Lines 984-993: character, state, position, direction, damage,
\* shield_health, last_attack_landed, combo_count, last_hit_by, stocks.
BaseBytes == 1 + 2 + (4 + 4) + 4 + 4 + 4 + 1 + 1 + 1 + 1

\* The reads of each version block, in order: state_age; flags, misc_timer,
\* airborne, last_ground_id, jumps, l_cancel; hurtbox_status; the three
\* speeds; hitlag_remaining; animation_index.
BlockBytes ==
    <<4, (1 + 1 + 1 + 1 + 1) + 4 + 1 + 2 + 1 + 1, 1, (4 + 4) + (4 + 4) + 4, 4, 4>>

BlockNames ==
    <<"state_age", "flags", "hurtbox_status", "speeds", "hitlag_remaining",
      "animation_index">>

\* The offset at which block k starts.
RECURSIVE BlockStart(_)
BlockStart(k) == IF k = 1 THEN BaseBytes ELSE BlockStart(k - 1) + BlockBytes[k - 1]

\* The payload lengths that end exactly at a version-block boundary.
Boundaries == {BlockStart(k) : k \in 1..Len(BlockBytes)}
                \cup {BlockStart(Len(BlockBytes)) + BlockBytes[Len(BlockBytes)]}

\* The record cls(...) builds when the blocks before `failed` were read.
PostRecord(failed) ==
    [raised |-> FALSE,
     blocks |-> [k \in 1..Len(BlockBytes) |->
                    IF k < failed THEN Some(BlockStart(k)) ELSE None]]

Raised == [raised |-> TRUE, blocks |-> [k \in 1..Len(BlockBytes) |-> None]]

\* The except branch taken when block k cannot be read: the branch of the
\* first block passes state_age, which is not bound there, to cls(...)
\* (UnboundLocalError); the others return the record of the blocks read.
ExceptBranch(n, k) == IF k = 1 THEN Raised ELSE PostRecord(k)

\* Post._parse on a payload of n bytes.
RECURSIVE ParseBlocks(_, _)
ParseBlocks(n, k) ==
    IF k > Len(BlockBytes) THEN PostRecord(k)
    ELSE IF n - BlockStart(k) >= BlockBytes[k] THEN ParseBlocks(n, k + 1)
    ELSE ExceptBranch(n, k)

PostParse(n) == IF n < BaseBytes THEN Raised ELSE ParseBlocks(n, 1)

PayloadLengths == 0..(BlockStart(Len(BlockBytes)) + BlockBytes[Len(BlockBytes)] + MaxTrail)

InitPost ==
    /\ InitIdle
    /\ total_size = 0
    /\ skip_frames = FALSE
    /\ pc = "call"
    /\ arg \in [n : PayloadLengths]
    /\ res = None
    /\ computer = None

\* Frame.Port.Data.post: the raw payload is decoded on first access.
DecodePost ==
    /\ pc = "call"
    /\ res' = Some(PostParse(arg.n))
    /\ pc' = "returned"
    /\ UNCHANGED <<arg, computer, idleVars>>

NextPost == DecodePost

SpecPost == InitPost /\ [][NextPost]_vars

\* C8: decoding a post-frame payload that ends exactly at a version-block
\* boundary, the one directly before state_age included, returns a partial
\* record without raising: every block fully present is populated, every
\* later block is None, and no block is populated unless all earlier blocks
\* are.
C8_BoundaryPayloadParses ==
    (pc = "returned" /\ arg.n \in Boundaries) =>
        /\ ~res[1].raised
        /\ \A k \in 1..Len(BlockBytes) :
              (res[1].blocks[k] # None) <=> (BlockStart(k) + BlockBytes[k] <= arg.n)
        /\ \A k \in 2..Len(BlockBytes) :
              res[1].blocks[k] # None => res[1].blocks[k - 1] # None

(***************************************************************************)
(* ComputerBase (stats/computer.py): a StatsComputer is primed with a      *)
(* parsed Game and asked for a player.  The character of the player on     *)
(* port p is the one with CSS id p; the game has one (last) frame.         *)
(***************************************************************************)
\* util.Port, in the order a for loop over the enum visits its members:
\* NONE, P1, P2, P3, P4.
PortMembers == <<-1, 0, 1, 2, 3>>

\* The ports a game has (Start._parse: for i in range(4)).
GamePorts == 0..(NumPorts - 1)

\* Start.Player.Type, DEMO left out.
SlotTypes == {"EMPTY", "HUMAN", "CPU"}

\* lst[i] of a Python list, for an index inside -len..len-1.
PyGet(lst, i) == lst[IF i < 0 THEN Len(lst) + i + 1 ELSE i + 1]

RECURSIVE Flatten(_)
Flatten(ss) == IF ss = <<>> THEN <<>> ELSE Head(ss) \o Flatten(Tail(ss))

Without(s, i) == SubSeq(s, 1, i - 1) \o SubSeq(s, i + 1, Len(s))

\* list(itertools.permutations(s)): by position, in lexicographic order of
\* the positions; one empty tuple for the empty list.
RECURSIVE permutations(_)
permutations(s) ==
    IF s = <<>> THEN << <<>> >>
    ELSE Flatten([i \in 1..Len(s) |->
            LET rest == permutations(Without(s, i))
            IN  [j \in 1..Len(rest) |-> <<s[i]>> \o rest[j]]])

\* The connect code metadata holds for the player on a port.
CodeOf(p) == <<"AAAA#1", "BBBB#2", "CCCC#3", "DDDD#4">>[p + 1]

Occupied(types) == {p \in GamePorts : types[p] # "EMPTY"}

\* Start._parse, lines 180-206: a slot of type EMPTY becomes None.
StartPlayers(types) ==
    [i \in 1..NumPorts |->
        IF types[i - 1] = "EMPTY" THEN None
        ELSE Some([character |-> i - 1, type |-> types[i - 1]])]

\* Metadata._parse: players of the ports that played.
MetadataPlayers(types) ==
    [i \in 1..NumPorts |->
        IF types[i - 1] = "EMPTY" THEN None
        ELSE Some([connect_code |-> Some(CodeOf(i - 1))])]

\* The last frame of the game: a port that does not play has no data; the
\* port `loser` ends at no stock, the others with MaxStocks.
LastFrame(types, loser) ==
    [index |-> FIRST_FRAME_INDEX,
     ports |-> [i \in 1..NumPorts |->
        IF types[i - 1] = "EMPTY" THEN None
        ELSE Some([leader |-> [owner |-> i - 1,
                               post |-> [stocks_remaining |->
                                   IF loser = Some(i - 1) THEN 0 ELSE MaxStocks]],
                   follower |-> None])]]

\* End._parse: lras_initiator is None unless below 4; player_placements is
\* None before 3.13.0, else 0 for the winner and 255 (-1) for an empty port.
Ends(types) ==
    {None} \cup
    {Some([lras_initiator |-> l, player_placements |-> pl]) :
        l \in {None} \cup {Some(q) : q \in Occupied(types)},
        pl \in {None} \cup
               {Some([i \in 1..NumPorts |->
                        IF types[i - 1] = "EMPTY" THEN 255
                        ELSE IF i - 1 = w THEN 0 ELSE 1]) : w \in Occupied(types)}}

\* The parsed games a computer is primed with.
Games ==
    UNION {{[start |-> [players |-> StartPlayers(types)],
             end |-> e,
             frames |-> <<LastFrame(types, loser)>>,
             metadata |-> [players |-> MetadataPlayers(types)]] :
               e \in Ends(types),
               loser \in {None} \cup {Some(q) : q \in Occupied(types)}} :
           types \in [GamePorts -> SlotTypes]}

\* stat_types.Data.__init__
StatsData ==
    [wavedashes |-> <<>>, dashes |-> <<>>, techs |-> <<>>, take_hits |-> <<>>,
     l_cancels |-> <<>>, l_cancels_percentage |-> None, shield_drops |-> <<>>]

\* Player.__init__
Player(characters, port, connect_code, did_win, player_frames) ==
    [character |-> characters[1],
     opnt_character |-> characters[2],
     port |-> port,
     connect_code |-> connect_code,
     did_win |-> did_win,
     frames |-> player_frames,
     stats |-> StatsData]

\* StatsComputer.__init__ without a replay.
NewComputer ==
    [players |-> <<>>, replay |-> None, _wavedash_state |-> None,
     _tech_state |-> None, _dash_state |-> None, _take_hit_state |-> None]

\* prime_replay, lines 159-172: did_win of a port, or the error raised.
DidWin(game, port) ==
    IF game.end = None THEN [raised |-> "", did_win |-> FALSE]
    ELSE IF game.end[1].player_placements # None
    THEN [raised |-> "",
          did_win |-> PyGet(game.end[1].player_placements[1], port) = 0]
    ELSE IF game.end[1].lras_initiator # None /\ game.end[1].lras_initiator[1] # -1
    THEN [raised |-> "", did_win |-> port # game.end[1].lras_initiator[1]]
    ELSE LET data == PyGet(PyGet(game.frames, -1).ports, port)
         IN  IF data = None
             THEN [raised |-> "AttributeError", did_win |-> FALSE]
             ELSE [raised |-> "",
                   did_win |-> data[1].leader.post.stocks_remaining > 0]

\* prime_replay, lines 158-190: the loop over Port, from its k-th member.
RECURSIVE PortLoop(_, _, _, _)
PortLoop(game, k, players, characters) ==
    IF k > Len(PortMembers) THEN [raised |-> "", players |-> players]
    ELSE LET port == PortMembers[k]
             won == DidWin(game, port)
         IN  IF won.raised # "" THEN [raised |-> won.raised, players |-> players]
             ELSE IF PyGet(game.start.players, port) = None
             THEN PortLoop(game, k + 1, players, characters)
             ELSE IF characters = <<>>
             THEN [raised |-> "IndexError", players |-> players]
             ELSE IF PyGet(game.metadata.players, port) = None
             THEN [raised |-> "AttributeError", players |-> players]
             ELSE PortLoop(game, k + 1,
                    Append(players,
                        Player(Head(characters), port,
                               PyGet(game.metadata.players, port)[1].connect_code,
                               won.did_win,
                               [f \in 1..Len(game.frames) |->
                                   PyGet(game.frames[f].ports, port)[1].leader])),
                    Tail(characters))

\* prime_replay as a whole: the error raised ("" for none) and self.players
\* as the call leaves it.
PrimeReplay(players, game) ==
    LET present == SelectSeq(game.start.players, LAMBDA pl : pl # None)
        characters == permutations([i \in 1..Len(present) |-> present[i][1].character])
    IN  IF Len(characters) # 2
        THEN [raised |-> "PlayerCountError", players |-> players]
        ELSE LET looped == PortLoop(game, 1, players, characters)
             IN  IF looped.raised = "" /\ Len(looped.players) # 2
                 THEN [raised |-> "ValueError", players |-> looped.players]
                 ELSE looped

\* What identifier.upper() gives for the strings callers pass.
Upper(str) == IF str = "aaaa#1" THEN "AAAA#1" ELSE str

\* get_player: the subject of the match is identifier.upper(), which only
\* a str has; the players are compared with the identifier as given.
GetPlayer(players, identifier) ==
    IF identifier.kind # "str" THEN [raised |-> "AttributeError", player |-> None]
    ELSE LET subject == Upper(identifier.value)
             hits == SelectSeq(players,
                        LAMBDA pl : pl.connect_code = Some(identifier.value))
         IN  IF hits # <<>> THEN [raised |-> "", player |-> Some(Head(hits))]
             ELSE [raised |-> "IdentifierError", player |-> None]

\* The identifiers get_player is called with: ports as int, connect codes.
Identifiers ==
    {[kind |-> "int", value |-> q] : q \in GamePorts}
      \cup {[kind |-> "str", value |-> c] : c \in {"AAAA#1", "aaaa#1", "BBBB#2", "ZZZZ#9"}}

InitComputer ==
    /\ InitIdle
    /\ total_size = 0
    /\ skip_frames = FALSE
    /\ pc = "call"
    /\ arg \in [game : Games, identifier : {None}]
    /\ res = None
    /\ computer = Some(NewComputer)

prime_replay ==
    /\ pc = "call"
    /\ LET primed == PrimeReplay(computer[1].players, arg.game)
       IN  /\ computer' = Some([computer[1] EXCEPT !.players = primed.players,
                                                   !.replay = Some(arg.game)])
           /\ res' = Some([raised |-> primed.raised, player |-> None])
           /\ pc' = IF primed.raised = "" THEN "primed" ELSE "raised"
    /\ UNCHANGED <<arg, idleVars>>

get_player ==
    /\ pc = "primed"
    /\ \E identifier \in Identifiers :
          /\ arg' = [arg EXCEPT !.identifier = Some(identifier)]
          /\ res' = Some(GetPlayer(computer[1].players, identifier))
    /\ pc' = "returned"
    /\ UNCHANGED <<computer, idleVars>>

NextComputer ==
    \/ prime_replay
    \/ get_player

SpecComputer == InitComputer /\ [][NextComputer]_vars

\* The slots of the start record that are not empty, and their types.
NonEmptySlots(game) == {q \in GamePorts : game.start.players[q + 1] # None}

TwoHumans(game) ==
    /\ Cardinality(NonEmptySlots(game)) = 2
    /\ \A q \in NonEmptySlots(game) : game.start.players[q + 1][1].type = "HUMAN"

Primed == pc \in {"primed", "raised"}

\* C12: prime_replay raises PlayerCountError unless the start record has
\* exactly two non-empty slots and both are Human; with exactly two
\* non-empty Human slots it raises no PlayerCountError.
C12_PlayerCountChecked ==
    Primed => ((res[1].raised = "PlayerCountError") <=> ~TwoHumans(arg.game))

\* C13: after prime_replay on a game with exactly two non-empty ports,
\* players holds exactly two Player objects, one per non-empty port, each
\* with that port's index, its own character, the other player's character
\* as opponent character, and that port's leader frames, whichever two of
\* the four ports are occupied.
C13_PlayersBoundToPorts ==
    (Primed /\ Cardinality(NonEmptySlots(arg.game)) = 2) =>
        /\ res[1].raised = ""
        /\ Len(computer[1].players) = 2
        /\ \A q \in NonEmptySlots(arg.game) :
              \E i \in 1..Len(computer[1].players) :
                 LET pl == computer[1].players[i]
                 IN  /\ pl.port = q
                     /\ pl.character = q
                     /\ pl.opnt_character \in NonEmptySlots(arg.game) \ {q}
                     /\ \A f \in 1..Len(pl.frames) : pl.frames[f].owner = q

\* The rule that decides did_win of port q in a game with an End record.
WinRule(game, q) ==
    IF game.end[1].player_placements # None
    THEN game.end[1].player_placements[1][q + 1] = 0
    ELSE IF game.end[1].lras_initiator # None
    THEN game.end[1].lras_initiator[1] # q
    ELSE game.frames[Len(game.frames)].ports[q + 1][1].leader.post.stocks_remaining > 0

\* C14: for every two-player game with an End record, prime_replay sets
\* each player's did_win by the first applicable rule: placement 0 wins where
\* placements exist; otherwise the player who is not the LRAS initiator
\* wins; otherwise the last-frame stock counts decide.
C14_DidWinByFirstRule ==
    (Primed /\ Cardinality(NonEmptySlots(arg.game)) = 2 /\ arg.game.end # None) =>
        /\ res[1].raised = ""
        /\ \A i \in 1..Len(computer[1].players) :
              computer[1].players[i].did_win
                 = WinRule(arg.game, computer[1].players[i].port)

\* C15: get_player resolves an integer port identifier to the player on
\* that port and a string identifier to the player whose connect code
\* equals it case-sensitively; an identifier that matches no player raises
\* IdentifierError, and no other kind of error is raised.
C15_GetPlayerResolves ==
    (pc = "returned" /\ arg.identifier # None) =>
        LET id == arg.identifier[1]
            match == {i \in 1..Len(computer[1].players) :
                        IF id.kind = "int"
                        THEN computer[1].players[i].port = id.value
                        ELSE computer[1].players[i].connect_code = Some(id.value)}
        IN  /\ res[1].raised \in {"", "IdentifierError"}
            /\ (match # {}) =>
                  (res[1].player # None /\ \E i \in match :
                        res[1].player[1] = computer[1].players[i])
            /\ (match = {}) => res[1].raised = "IdentifierError"

(***************************************************************************)
(* StatsComputer (stats/stats_computer.py): the detectors.  A pass runs    *)
(* one detector over the frames of one player of a primed computer.  The   *)
(* joystick of a frame is the Position object of that frame: the player's  *)
(* port and the frame's position, which say whose object it is, and its x  *)
(* and y in units of half the dead-zone radius (0.2875 is 2).              *)
(***************************************************************************)
WAIT == 14
TURN == 18
DASH == 20
KNEE_BEND == 24
LAND_FALL_SPECIAL == 43
ESCAPE_AIR == 236

\* range(0, 5) of the look-back loops of wavedash_compute.
LookBack == 5

\* frames[i] of a Python sequence is defined for -len <= i < len.
InRange(fs, i) == i >= -Len(fs) /\ i < Len(fs)

\* The frames of the player on a port, from the letters that describe them.
\* P1 stands left of the centre and P2 right of it, both on the ground; a
\* letter may carry the hitlag flag, the percent, the stick position, the
\* x position and the facing direction of its frame.
PlayerFrames(port, letters) ==
    [n \in 1..Len(letters) |->
        [pre |-> [buttons |-> letters[n].buttons, joystick |-> <<port, n - 1,
                                 IF "stick" \in DOMAIN letters[n]
                                 THEN letters[n].stick.x ELSE 0,
                                 IF "stick" \in DOMAIN letters[n]
                                 THEN letters[n].stick.y ELSE 0>>],
         post |-> [state |-> letters[n].state, stocks_remaining |-> MaxStocks,
                   position |-> [x |-> IF "x" \in DOMAIN letters[n]
                                       THEN letters[n].x
                                       ELSE 20 * port - 10 + (n - 1),
                                 y |-> 0],
                   facing_direction |-> IF "facing" \in DOMAIN letters[n]
                                        THEN letters[n].facing ELSE 1,
                   most_recent_hit |-> port + 1,
                   last_ground_id |-> 0,
                   is_airborne |-> FALSE,
                   l_cancel |-> IF "l_cancel" \in DOMAIN letters[n]
                                THEN letters[n].l_cancel ELSE 0,
                   flags |-> IF "hitlag" \in DOMAIN letters[n] /\ letters[n].hitlag
                             THEN {"HITLAG"} ELSE {},
                   percent |-> IF "percent" \in DOMAIN letters[n]
                               THEN letters[n].percent ELSE 0]]]

\* A computer primed with a game of P1 and P2 that has no End record.
PrimedComputer(letters1, letters2) ==
    [NewComputer EXCEPT
        !.players = <<Player(<<0, 1>>, 0, Some(CodeOf(0)), FALSE,
                             PlayerFrames(0, letters1)),
                      Player(<<1, 0>>, 1, Some(CodeOf(1)), FALSE,
                             PlayerFrames(1, letters2))>>,
        !.replay = Some("Game")]

\* The number of frames of a sequence other than the idle frame.
Marked(fs, idle) == Cardinality({n \in 1..Len(fs) : fs[n] # idle})

\* Frame sequences of FrameCount frames, at most MaxMarked of them other
\* than the idle frame.
MarkedSeqs(letters, idle) ==
    {fs \in [1..FrameCount -> letters \cup {idle}] : Marked(fs, idle) <= MaxMarked}

\* What a frame can be for wavedash_compute: standing, jumpsquat, an
\* airdodge with R pressed, landing from the airdodge.
IdleFrame == [state |-> WAIT, buttons |-> {}]

WavedashLetters ==
    {[state |-> KNEE_BEND, buttons |-> {}],
     [state |-> ESCAPE_AIR, buttons |-> {"R"}],
     [state |-> LAND_FALL_SPECIAL, buttons |-> {}]}

\* WavedashData.__init__: angle and direction are a function of the stick
\* alone and are kept as the stick.
WavedashData(frame_index, stocks_remaining, trigger_frame, stick, airdodge_frames) ==
    [frame_index |-> frame_index,
     stocks_remaining |-> stocks_remaining,
     angle |-> stick,
     trigger_frame |-> trigger_frame,
     airdodge_frames |-> airdodge_frames,
     waveland |-> TRUE]

\* wavedash_compute, lines 214-219: the scan for the jumpsquat, from its
\* k-th step; state is self._wavedash_state.
RECURSIVE KneeBendScan(_, _, _, _)
KneeBendScan(fs, from, k, state) ==
    IF k >= LookBack THEN [raised |-> "", state |-> state]
    ELSE IF ~InRange(fs, from - k) THEN [raised |-> "IndexError", state |-> state]
    ELSE IF PyGet(fs, from - k).post.state = KNEE_BEND
    THEN [raised |-> "",
          state |-> Some([state[1] EXCEPT !.trigger_frame = k, !.waveland = FALSE])]
    ELSE KneeBendScan(fs, from, k + 1, state)

\* wavedash_compute, lines 200-219: the scan for the L or R press, from its
\* j-th step; it goes on after a press was found.
RECURSIVE PressScan(_, _, _, _)
PressScan(fs, i, j, state) ==
    IF j >= LookBack THEN [raised |-> "", state |-> state]
    ELSE IF ~InRange(fs, i - j) THEN [raised |-> "IndexError", state |-> state]
    ELSE IF PyGet(fs, i - j).pre.buttons \cap {"R", "L"} # {}
    THEN LET found == KneeBendScan(fs, i - j, 0,
                        Some(WavedashData(i, fs[i + 1].post.stocks_remaining, 0,
                                          fs[i + 1].pre.joystick, j)))
         IN  IF found.raised # "" THEN found
             ELSE PressScan(fs, i, j + 1, found.state)
    ELSE PressScan(fs, i, j + 1, state)

\* wavedash_compute, lines 186-221: the loop over the frames, from frame i;
\* out is player.stats.wavedashes.
RECURSIVE WavedashLoop(_, _, _, _)
WavedashLoop(fs, i, state, out) ==
    IF i >= Len(fs) THEN [raised |-> "", state |-> state, out |-> out]
    ELSE IF fs[i + 1].post.state # LAND_FALL_SPECIAL
    THEN WavedashLoop(fs, i + 1, state, out)
    ELSE IF i = 0
    THEN [raised |-> "UnboundLocalError", state |-> state, out |-> out]
    ELSE IF fs[i].post.state = LAND_FALL_SPECIAL
    THEN WavedashLoop(fs, i + 1, state, out)
    ELSE LET scanned == PressScan(fs, i, 0, state)
         IN  IF scanned.raised # ""
             THEN [raised |-> scanned.raised, state |-> scanned.state, out |-> out]
             ELSE WavedashLoop(fs, i + 1, scanned.state,
                     IF scanned.state # None THEN Append(out, scanned.state[1])
                     ELSE out)

InitStats(letters, idle) ==
    /\ InitIdle
    /\ total_size = 0
    /\ skip_frames = FALSE
    /\ pc = "primed"
    /\ arg = [player |-> 0]
    /\ res = None
    /\ \E letters1, letters2 \in MarkedSeqs(letters, idle) :
          /\ Marked(letters1, idle) + Marked(letters2, idle) <= MaxMarked
          /\ computer = Some(PrimedComputer(letters1, letters2))

parserVars == <<current_frame, bytes_read, total_size, skip_frames, event, pos,
                codes, lastFrame, emitted, start, frames, end, metadata>>

\* wavedash_compute(player=...) for either player; calls lists the passes
\* made on the computer.
wavedash_compute ==
    /\ pc = "primed"
    /\ Len(calls) < MaxPasses
    /\ \E p \in 1..2 :
          LET player == computer[1].players[p]
              pass == WavedashLoop(player.frames, 0, computer[1]._wavedash_state,
                                   player.stats.wavedashes)
          IN  /\ computer' = Some([computer[1] EXCEPT
                                     !._wavedash_state = pass.state,
                                     !.players[p].stats.wavedashes = pass.out])
              /\ res' = Some([raised |-> pass.raised])
              /\ arg' = [player |-> p]
    /\ calls' = Append(calls, "wavedash_compute")
    /\ UNCHANGED <<pc, parserVars>>

InitWavedash == InitStats(WavedashLetters, IdleFrame)

NextWavedash == wavedash_compute

SpecWavedash == InitWavedash /\ [][NextWavedash]_vars

\* The step is a pass of the detector that ran to completion.
PassDone == calls' # calls /\ res'[1].raised = ""

\* The records the pass appended to a list.
Appended(old, new) == SubSeq(new, Len(old) + 1, Len(new))

\* Frame i enters LAND_FALL_SPECIAL and one of the frames of its look-back
\* window has L or R pressed.
WavedashLanding(fs, i) ==
    /\ fs[i + 1].post.state = LAND_FALL_SPECIAL
    /\ i > 0
    /\ fs[i].post.state # LAND_FALL_SPECIAL
    /\ \E j \in 0..(LookBack - 1) :
          i - j >= 0 /\ fs[i - j + 1].pre.buttons \cap {"R", "L"} # {}

\* The wavedash landings of a frame sequence from frame i on, in order.
RECURSIVE Landings(_, _)
Landings(fs, i) ==
    IF i >= Len(fs) THEN <<>>
    ELSE (IF WavedashLanding(fs, i) THEN <<i>> ELSE <<>>) \o Landings(fs, i + 1)

\* C16: each detector pass starts with empty rolling state: a record
\* appended during a pass for one player was opened in that pass, so it
\* carries data of that player's frames only, whatever pass ran before.
C16_PassStartsEmpty ==
    [][calls' # calls =>
          LET old == computer[1].players[arg'.player]
              new == computer'[1].players[arg'.player]
              added == Appended(old.stats.wavedashes, new.stats.wavedashes)
          IN  \A n \in 1..Len(added) : added[n].angle[1] = new.port]_vars

\* C17: within one pass, wavedash_compute appends one Wavedash for each
\* entry into LAND_FALL_SPECIAL that has an L or R press in its look-back
\* window and nothing for an entry that has none; the frame_index of every
\* appended record is the landing frame that caused the append.
C17_OneWavedashPerLanding ==
    [][(PassDone /\ Len(calls) = 0) =>
          LET new == computer'[1].players[arg'.player]
              landings == Landings(new.frames, 0)
          IN  /\ Len(new.stats.wavedashes) = Len(landings)
              /\ \A n \in 1..Len(landings) :
                    new.stats.wavedashes[n].frame_index = landings[n]]_vars

(***************************************************************************)
(* dash_compute                                                            *)
(***************************************************************************)
DashLetters == {[state |-> DASH, buttons |-> {}], [state |-> TURN, buttons |-> {}]}

\* DashData(frame_index, stocks_remaining, direction, start_pos, is_dashdance)
DashData(frame_index, stocks_remaining, direction, start_pos, is_dashdance) ==
    [frame_index |-> frame_index,
     stocks_remaining |-> stocks_remaining,
     direction |-> direction,
     start_pos |-> start_pos,
     end_pos |-> None,
     is_dashdance |-> is_dashdance]

\* common.just_entered_state and just_exited_state for a plain state id.
just_entered_state(action_state, curr_state, prev_state) ==
    curr_state = action_state /\ prev_state # action_state

just_exited_state(action_state, curr_state, prev_state) ==
    prev_state = action_state /\ curr_state # action_state

\* dash_compute, lines 237-269: the loop over the frames, from frame i;
\* state is self._dash_state, out is player.stats.dashes.
RECURSIVE DashLoop(_, _, _, _)
DashLoop(fs, i, state, out) ==
    IF i >= Len(fs) THEN [raised |-> "", state |-> state, out |-> out]
    ELSE IF i < 2 THEN DashLoop(fs, i + 1, state, out)
    ELSE LET player_post == fs[i + 1].post
             player_state == player_post.state
             prev_player_state == fs[i].post.state
             prev_prev_player_state == fs[i - 1].post.state
             dashdance == prev_player_state = TURN /\ prev_prev_player_state = DASH
         IN  IF just_entered_state(DASH, player_state, prev_player_state)
             THEN LET opened == DashData(i, player_post.stocks_remaining,
                                    player_post.facing_direction,
                                    player_post.position.x, dashdance)
                  IN  IF ~dashdance
                      THEN DashLoop(fs, i + 1, Some(opened), out)
                      ELSE IF out = <<>>
                      THEN [raised |-> "IndexError", state |-> Some(opened), out |-> out]
                      ELSE DashLoop(fs, i + 1, Some(opened),
                              [out EXCEPT ![Len(out)].is_dashdance = TRUE])
             ELSE IF just_exited_state(DASH, player_state, prev_player_state)
             THEN IF state = None
                  THEN [raised |-> "AttributeError", state |-> state, out |-> out]
                  ELSE DashLoop(fs, i + 1, None,
                          Append(out, [state[1] EXCEPT
                                         !.end_pos = Some(player_post.position.x)]))
             ELSE DashLoop(fs, i + 1, state, out)

\* The frames of player 1 are any sequence of the letters; player 2 stands
\* idle.
InitDetector(letters) ==
    /\ InitIdle
    /\ total_size = 0
    /\ skip_frames = FALSE
    /\ pc = "primed"
    /\ arg = [player |-> 0]
    /\ res = None
    /\ \E letters1 \in [1..FrameCount -> letters \cup {IdleFrame}] :
          computer = Some(PrimedComputer(letters1, [n \in 1..FrameCount |-> IdleFrame]))

dash_compute ==
    /\ pc = "primed"
    /\ Len(calls) < MaxPasses
    /\ \E p \in 1..2 :
          LET player == computer[1].players[p]
              pass == DashLoop(player.frames, 0, computer[1]._dash_state,
                               player.stats.dashes)
          IN  /\ computer' = Some([computer[1] EXCEPT
                                     !._dash_state = pass.state,
                                     !.players[p].stats.dashes = pass.out])
              /\ res' = Some([raised |-> pass.raised])
              /\ arg' = [player |-> p]
    /\ calls' = Append(calls, "dash_compute")
    /\ UNCHANGED <<pc, parserVars>>

InitDash == InitDetector(DashLetters)

NextDash == dash_compute

SpecDash == InitDash /\ [][NextDash]_vars

\* The first frames of the maximal runs of frames that satisfy In, from
\* frame i on, in order.
RunStart(fs, i, In(_)) ==
    In(fs[i + 1].post.state) /\ (i = 0 \/ ~In(fs[i].post.state))

IsDash(action_state) == action_state = DASH

RECURSIVE DashRuns(_, _)
DashRuns(fs, i) ==
    IF i >= Len(fs) THEN <<>>
    ELSE (IF RunStart(fs, i, IsDash) THEN <<i>> ELSE <<>>) \o DashRuns(fs, i + 1)

\* The first pass made on the computer, for this player.
FirstPass(p) == calls = <<>> /\ calls' # <<>> /\ arg'.player = p

\* The states of the frames of a player.
StatesOf(player) == [n \in 1..Len(player.frames) |-> player.frames[n].post.state]

\* C18: for every frame sequence, dash_compute runs to completion having
\* appended exactly one Dash per maximal run of consecutive DASH frames, in
\* order of occurrence; the states DASH, DASH, TURN, DASH, DASH yield two
\* Dashes.
C18_OneDashPerRun ==
    [][FirstPass(1) =>
          LET new == computer'[1].players[1]
              runs == DashRuns(new.frames, 0)
          IN  /\ res'[1].raised = ""
              /\ Len(new.stats.dashes) = Len(runs)
              /\ \A n \in 1..Len(runs) : new.stats.dashes[n].frame_index = runs[n]
              /\ SubSeq(StatesOf(new), 1, 5) = <<DASH, DASH, TURN, DASH, DASH>>
                    => Len(new.stats.dashes) = 2]_vars

(***************************************************************************)
(* tech_compute                                                            *)
(***************************************************************************)
DAMAGE_START == 75
DAMAGE_END == 91
DOWN_START == 183
DOWN_END == 198
TECH_START == 199
TECH_END == 204
DAMAGE_HI_1 == 75
DOWN_BOUND_U == 183
DOWN_WAIT_U == 184
DOWN_DAMAGE_U == 185
DOWN_STAND_U == 186
DOWN_DAMAGE_D == 193
DOWN_STAND_D == 194
PASSIVE == 199
DOWN_FOWARD_U == 188
DOWN_BACK_U == 189
DOWN_FOWARD_D == 196
DOWN_BACK_D == 197
PASSIVE_STAND_F == 200
PASSIVE_STAND_B == 201
FLY_REFLECT_WALL == 247
FLY_REFLECT_CEIL == 248

\* The version of the primed replay, self.replay_version.
ReplayVersion == [major |-> 3, minor |-> 9, revision |-> 0]

\* common.is_teching
is_teching(action_state) ==
    \/ (TECH_START <= action_state /\ action_state <= TECH_END)
    \/ (DOWN_START <= action_state /\ action_state <= DOWN_END)
    \/ action_state = FLY_REFLECT_CEIL
    \/ action_state = FLY_REFLECT_WALL

\* common.is_damaged
is_damaged(action_state) ==
    \/ (DAMAGE_START <= action_state /\ action_state <= DAMAGE_END)
    \/ action_state = DOWN_DAMAGE_U
    \/ action_state = DOWN_DAMAGE_D

\* common.get_tech_type, for the states of the frames the passes run over
\* and their neighbours; any other state has no tech type.
get_tech_type(action_state, direction) ==
    IF action_state = PASSIVE THEN Some("TECH_IN_PLACE")
    ELSE IF action_state \in {DOWN_STAND_U, DOWN_STAND_D} THEN Some("MISSED_TECH_GET_UP")
    ELSE IF action_state = PASSIVE_STAND_F
    THEN (IF direction > 0 THEN Some("TECH_RIGHT") ELSE Some("TECH_LEFT"))
    ELSE IF action_state \in {DOWN_FOWARD_U, DOWN_FOWARD_D}
    THEN (IF direction > 0 THEN Some("MISSED_TECH_ROLL_RIGHT")
          ELSE Some("MISSED_TECH_ROLL_LEFT"))
    ELSE IF action_state = PASSIVE_STAND_B
    THEN (IF direction > 0 THEN Some("TECH_LEFT") ELSE Some("TECH_RIGHT"))
    ELSE IF action_state \in {DOWN_BACK_U, DOWN_BACK_D}
    THEN (IF direction > 0 THEN Some("MISSED_TECH_ROLL_LEFT")
          ELSE Some("MISSED_TECH_ROLL_RIGHT"))
    ELSE IF action_state \in {DOWN_BOUND_U, DOWN_WAIT_U} THEN Some("MISSED_TECH")
    ELSE IF action_state \in {DOWN_DAMAGE_U, DOWN_DAMAGE_D} THEN Some("JAB_RESET")
    ELSE IF action_state = FLY_REFLECT_CEIL THEN Some("MISSED_CEILING_TECH")
    ELSE IF action_state = FLY_REFLECT_WALL THEN Some("MISSED_WALL_TECH")
    ELSE None

\* TechData(frame_index, stocks_remaining, position, is_on_platform) with the
\* defaults of the other fields.
TechData(frame_index, stocks_remaining, position, is_on_platform) ==
    [frame_index |-> frame_index,
     stocks_remaining |-> stocks_remaining,
     tech_type |-> None,
     was_punished |-> FALSE,
     position |-> position,
     ground_id |-> None,
     is_on_platform |-> is_on_platform,
     is_missed_tech |-> FALSE,
     towards_center |-> None,
     towards_opponent |-> None,
     jab_reset |-> None,
     last_hit_by |-> None]

\* What a frame can be for tech_compute: a tech in place, lying after a
\* missed tech, being hit.
TechLetters ==
    {[state |-> PASSIVE, buttons |-> {}],
     [state |-> DOWN_BOUND_U, buttons |-> {}],
     [state |-> DAMAGE_HI_1, buttons |-> {}]}

\* tech_compute, lines 297-374: the loop over the frames, from frame i; fs
\* are the player's frames, ofs the opponent's, state is self._tech_state,
\* out is player.stats.techs.
RECURSIVE TechLoop(_, _, _, _, _)
TechLoop(fs, ofs, i, state, out) ==
    IF i >= Len(fs) THEN [raised |-> "", state |-> state, out |-> out]
    ELSE IF i = 0 THEN TechLoop(fs, ofs, i + 1, state, out)
    ELSE LET player_post == fs[i + 1].post
             player_state == player_post.state
             prev_player_state == fs[i].post.state
             curr_teching == is_teching(player_state)
             was_teching == is_teching(prev_player_state)
             ground_check == ~__lt__(ReplayVersion, <<2, 0, 0>>)
         IN  IF ~curr_teching
             THEN IF was_teching /\ state # None
                  THEN TechLoop(fs, ofs, i + 1, None,
                          Append(out, [state[1] EXCEPT
                                         !.was_punished =
                                             @ \/ is_damaged(player_state)]))
                  ELSE TechLoop(fs, ofs, i + 1, state, out)
             ELSE IF ~InRange(ofs, i)
             THEN [raised |-> "IndexError", state |-> state, out |-> out]
             ELSE LET opponent_post == ofs[i + 1].post
                      created == TechData(i, player_post.stocks_remaining,
                                          player_post.position,
                                          player_post.position.y > 5)
                      hit == IF opponent_post.most_recent_hit # 0
                             THEN [created EXCEPT
                                     !.last_hit_by = Some(opponent_post.most_recent_hit)]
                             ELSE created
                      grounded == IF ground_check
                                  THEN [hit EXCEPT
                                          !.ground_id = Some(player_post.last_ground_id)]
                                  ELSE hit
                      current == IF ~was_teching THEN Some(grounded) ELSE state
                      tech_type == get_tech_type(player_state,
                                                 player_post.facing_direction)
                  IN  IF player_state = prev_player_state
                      THEN TechLoop(fs, ofs, i + 1, current, out)
                      ELSE IF current = None
                      THEN [raised |-> "AttributeError", state |-> current, out |-> out]
                      ELSE LET typed == [current[1] EXCEPT !.tech_type = tech_type]
                               opnt_relative_position ==
                                   opponent_post.position.x - player_post.position.x
                               filled ==
                                   IF tech_type = Some("MISSED_TECH")
                                   THEN [typed EXCEPT !.is_missed_tech = TRUE,
                                                      !.jab_reset = Some(FALSE)]
                                   ELSE IF tech_type = Some("JAB_RESET")
                                   THEN [typed EXCEPT !.jab_reset = Some(TRUE)]
                                   ELSE IF tech_type \in {Some("TECH_LEFT"),
                                                          Some("MISSED_TECH_ROLL_LEFT")}
                                   THEN [typed EXCEPT
                                           !.towards_center =
                                               Some(player_post.facing_direction > 0),
                                           !.towards_opponent =
                                               Some(opnt_relative_position > 0)]
                                   ELSE IF tech_type \in {Some("TECH_RIGHT"),
                                                          Some("MISSED_TECH_ROLL_RIGHT")}
                                   THEN [typed EXCEPT
                                           !.towards_center =
                                               Some(~(player_post.facing_direction > 0)),
                                           !.towards_opponent =
                                               Some(~(opnt_relative_position > 0))]
                                   ELSE typed
                           IN  TechLoop(fs, ofs, i + 1, Some(filled), out)

\* tech_compute(player=..., opponent=...) for either player, as
\* stats_compute calls it; line 296 resets self._tech_state.
tech_compute ==
    /\ pc = "primed"
    /\ Len(calls) < MaxPasses
    /\ \E p \in 1..2 :
          LET player == computer[1].players[p]
              opponent == computer[1].players[3 - p]
              pass == TechLoop(player.frames, opponent.frames, 0, None,
                               player.stats.techs)
          IN  /\ computer' = Some([computer[1] EXCEPT
                                     !._tech_state = pass.state,
                                     !.players[p].stats.techs = pass.out])
              /\ res' = Some([raised |-> pass.raised])
              /\ arg' = [player |-> p]
    /\ calls' = Append(calls, "tech_compute")
    /\ UNCHANGED <<pc, parserVars>>

InitTech == InitDetector(TechLetters)

NextTech == tech_compute

SpecTech == InitTech /\ [][NextTech]_vars

RECURSIVE TechRuns(_, _)
TechRuns(fs, i) ==
    IF i >= Len(fs) THEN <<>>
    ELSE (IF RunStart(fs, i, is_teching) THEN <<i>> ELSE <<>>) \o TechRuns(fs, i + 1)

\* C19: for every frame sequence, tech_compute appends exactly one Tech per
\* maximal run of consecutive frames in tech-family action states, in order
\* of occurrence.
C19_OneTechPerRun ==
    [][FirstPass(1) =>
          LET new == computer'[1].players[1]
              runs == TechRuns(new.frames, 0)
          IN  /\ Len(new.stats.techs) = Len(runs)
              /\ \A n \in 1..Len(runs) : new.stats.techs[n].frame_index = runs[n]]_vars

(***************************************************************************)
(* take_hit_compute                                                        *)
(***************************************************************************)
SQUAT_START == 39
SQUAT_END == 41
GUARD_START == 178
GUARD_END == 182
GUARD == 179

\* common.is_in_hitlag: Field2.HITLAG in flags[1].
is_in_hitlag(flags) == "HITLAG" \in flags

\* common.is_shielding
is_shielding(action_state) ==
    GUARD_START <= action_state /\ action_state <= GUARD_END

\* common.just_took_damage: not isclose(percent, prev_percent), for whole
\* percents.
just_took_damage(percent, prev_percent) == percent # prev_percent

\* TakeHitData() as lines 477-499 fill it on the frame that opens it.  The
\* knockback, ASDI and SDI fields are functions of the frames of the span
\* and are left out.
TakeHitData(frame_index, last_hit_by, state_before_hit, start_pos, percent, grounded, crouch_cancel) ==
    [frame_index |-> frame_index,
     last_hit_by |-> last_hit_by,
     state_before_hit |-> state_before_hit,
     start_pos |-> start_pos,
     end_pos |-> None,
     percent |-> percent,
     grounded |-> grounded,
     crouch_cancel |-> crouch_cancel,
     hitlag_frames |-> 0,
     stick_regions_during_hitlag |-> <<>>,
     di_stick_pos |-> None]

\* common.JoystickRegion
DEAD_ZONE == -1
UP == 0
UP_RIGHT == 1
RIGHT == 2
DOWN_RIGHT == 3
DOWN == 4
DOWN_LEFT == 5
LEFT == 6
UP_LEFT == 7

\* 0.2875, the edge of the dead zone, in the units of the stick coordinates.
StickThreshold == 2

\* common.get_joystick_region
get_joystick_region(stick_position) ==
    LET stick_x == stick_position[3]
        stick_y == stick_position[4]
    IN  IF stick_x >= StickThreshold /\ stick_y >= StickThreshold THEN UP_RIGHT
        ELSE IF stick_x >= StickThreshold /\ stick_y <= -StickThreshold THEN DOWN_RIGHT
        ELSE IF stick_x <= -StickThreshold /\ stick_y <= -StickThreshold THEN DOWN_LEFT
        ELSE IF stick_x <= -StickThreshold /\ stick_y >= StickThreshold THEN UP_LEFT
        ELSE IF stick_y >= StickThreshold THEN UP
        ELSE IF stick_x >= StickThreshold THEN RIGHT
        ELSE IF stick_y <= -StickThreshold THEN DOWN
        ELSE IF stick_x <= -StickThreshold THEN LEFT
        ELSE DEAD_ZONE

\* Lines 426-441: effective_stick is the frame's own joystick object, and
\* the match sets its x, its y or both to 0 according to its region.
EffectiveStick(joystick) ==
    LET region == get_joystick_region(joystick)
    IN  IF region \in {UP, DOWN} THEN [joystick EXCEPT ![3] = 0]
        ELSE IF region \in {LEFT, RIGHT} THEN [joystick EXCEPT ![4] = 0]
        ELSE IF region = DEAD_ZONE THEN [joystick EXCEPT ![3] = 0, ![4] = 0]
        ELSE joystick

\* What a frame can be for take_hit_compute: standing or shielding, in
\* hitlag or not, at 0 or 1 percent.
HitIdle == [state |-> WAIT, buttons |-> {}, hitlag |-> FALSE, percent |-> 0]

MaxPercent == 1

HitLetters ==
    [state : {WAIT, GUARD}, buttons : {{}}, hitlag : BOOLEAN,
     percent : 0..MaxPercent] \ {HitIdle}

\* take_hit_compute, lines 408-502: the loop over the frames, from frame i;
\* fs are the player's frames, ofs the opponent's, state is
\* self._take_hit_state, out is player.stats.take_hits.
RECURSIVE TakeHitLoop(_, _, _, _, _)
TakeHitLoop(fs, ofs, i, state, out) ==
    IF i >= Len(fs) THEN [raised |-> "", state |-> state, out |-> out, frames |-> fs]
    ELSE IF i = 0 THEN TakeHitLoop(fs, ofs, i + 1, state, out)
    ELSE IF ~InRange(ofs, i)
    THEN [raised |-> "IndexError", state |-> state, out |-> out, frames |-> fs]
    ELSE LET player_frame == fs[i + 1]
             prev_player_frame == fs[i]
             opponent_frame == ofs[i + 1]
             in_hitlag == /\ is_in_hitlag(player_frame.post.flags)
                          /\ ~is_shielding(prev_player_frame.post.state)
             was_in_hitlag == /\ is_in_hitlag(prev_player_frame.post.flags)
                              /\ ~is_shielding(prev_player_frame.post.state)
         IN  IF ~in_hitlag
             THEN IF was_in_hitlag /\ state # None
                  THEN LET effective_stick == EffectiveStick(player_frame.pre.joystick)
                       IN  TakeHitLoop(
                              [fs EXCEPT ![i + 1].pre.joystick = effective_stick],
                              ofs, i + 1, None,
                              Append(out,
                                 [state[1] EXCEPT
                                    !.end_pos = Some(prev_player_frame.post.position),
                                    !.di_stick_pos = Some(effective_stick)]))
                  ELSE TakeHitLoop(fs, ofs, i + 1, state, out)
             ELSE LET opened ==
                          IF /\ ~was_in_hitlag
                             /\ just_took_damage(player_frame.post.percent,
                                                 prev_player_frame.post.percent)
                          THEN Some(TakeHitData(i,
                                   opponent_frame.post.most_recent_hit,
                                   prev_player_frame.post.state,
                                   player_frame.post.position,
                                   player_frame.post.percent,
                                   ~player_frame.post.is_airborne,
                                   /\ SQUAT_START <= prev_player_frame.post.state
                                   /\ prev_player_frame.post.state < SQUAT_END))
                          ELSE state
                  IN  IF opened # None
                      THEN TakeHitLoop(fs, ofs, i + 1,
                              Some([opened[1] EXCEPT
                                      !.stick_regions_during_hitlag =
                                          Append(@, get_joystick_region(player_frame.pre.joystick)),
                                      !.hitlag_frames = @ + 1]),
                              out)
                      ELSE TakeHitLoop(fs, ofs, i + 1, opened, out)

\* take_hit_compute(player=..., opponent=...) for either player, as
\* stats_compute calls it; a replay older than 2.0.0 returns at once.
take_hit_compute ==
    /\ pc = "primed"
    /\ Len(calls) < MaxPasses
    /\ \E p \in 1..2 :
          LET player == computer[1].players[p]
              opponent == computer[1].players[3 - p]
              pass == TakeHitLoop(player.frames, opponent.frames, 0,
                                  computer[1]._take_hit_state,
                                  player.stats.take_hits)
          IN  /\ IF __lt__(ReplayVersion, <<2, 0, 0>>)
                 THEN /\ computer' = computer
                      /\ res' = Some([raised |-> ""])
                 ELSE /\ computer' = Some([computer[1] EXCEPT
                                             !._take_hit_state = pass.state,
                                             !.players[p].stats.take_hits = pass.out,
                                             !.players[p].frames = pass.frames])
                      /\ res' = Some([raised |-> pass.raised])
              /\ arg' = [player |-> p]
    /\ calls' = Append(calls, "take_hit_compute")
    /\ UNCHANGED <<pc, parserVars>>

\* The frames of player 1 are at most MaxMarked frames other than standing
\* at 0 percent; player 2 stands at 0 percent.
InitTakeHit ==
    /\ InitIdle
    /\ total_size = 0
    /\ skip_frames = FALSE
    /\ pc = "primed"
    /\ arg = [player |-> 0]
    /\ res = None
    /\ \E letters1 \in MarkedSeqs(HitLetters, HitIdle) :
          computer = Some(PrimedComputer(letters1, [n \in 1..FrameCount |-> HitIdle]))

NextTakeHit == take_hit_compute

SpecTakeHit == InitTakeHit /\ [][NextTakeHit]_vars

\* The TakeHits a pass has opened for a player: the appended ones and the
\* one still held in self._take_hit_state.
OpenedTakeHits(c, p) ==
    c.players[p].stats.take_hits \o
        (IF c._take_hit_state = None THEN <<>> ELSE c._take_hit_state)

\* C20: take_hit_compute opens a TakeHit only on a frame where the hitlag
\* bit becomes set, the previous frame was not shielding and the percent is
\* strictly greater than on the previous frame; a hitlag span entered with
\* an unchanged or lower percent produces no TakeHit.
C20_TakeHitOnlyOnDamage ==
    [][FirstPass(1) =>
          LET fs == computer[1].players[1].frames
              hits == OpenedTakeHits(computer'[1], 1)
          IN  \A n \in 1..Len(hits) :
                 LET i == hits[n].frame_index
                 IN  /\ i >= 1
                     /\ is_in_hitlag(fs[i + 1].post.flags)
                     /\ ~is_in_hitlag(fs[i].post.flags)
                     /\ ~is_shielding(fs[i].post.state)
                     /\ fs[i + 1].post.percent > fs[i].post.percent]_vars

(***************************************************************************)
(* TakeHitData._find_valid_sdi (stats/stat_types.py): the SDI inputs of a  *)
(* hitlag span, from the stick region of each of its frames.               *)
(***************************************************************************)
\* JoystickRegion: DEAD_ZONE, then UP .. UP_LEFT clockwise; the cardinals
\* are the even values.
JoystickRegion == DEAD_ZONE..UP_LEFT

MaxRegions == 3
MaxInserted == 2

\* abs()
Abs(n) == IF n < 0 THEN -n ELSE n

\* A test that lets a difference of 7 ordinals through.
DifferenceFrom3To7(stick_region, prev_stick_region) ==
    /\ 3 <= Abs(stick_region - prev_stick_region)
    /\ Abs(stick_region - prev_stick_region) <= 7

\* Line 341: the test on the ordinals of a cardinal that follows a diagonal.
DifferenceOfOrdinals(stick_region, prev_stick_region) ==
    /\ 3 <= Abs(stick_region - prev_stick_region)
    /\ Abs(stick_region - prev_stick_region) < 7

\* Lines 308-343: the loop over the stick regions, from entry i.
RECURSIVE FindValidSdiLoop(_, _, _)
FindValidSdiLoop(regions, i, sdi_inputs) ==
    IF i >= Len(regions) THEN sdi_inputs
    ELSE LET stick_region == regions[i + 1]
         IN  IF i = 0 \/ stick_region = DEAD_ZONE
             THEN FindValidSdiLoop(regions, i + 1, sdi_inputs)
             ELSE LET prev_stick_region == regions[i] IN
                  IF stick_region = prev_stick_region
                  THEN FindValidSdiLoop(regions, i + 1, sdi_inputs)
                  ELSE IF prev_stick_region = DEAD_ZONE
                  THEN FindValidSdiLoop(regions, i + 1, Append(sdi_inputs, stick_region))
                  ELSE IF prev_stick_region % 2 = 0
                  THEN FindValidSdiLoop(regions, i + 1, Append(sdi_inputs, stick_region))
                  ELSE IF stick_region % 2 = 1
                  THEN FindValidSdiLoop(regions, i + 1, Append(sdi_inputs, stick_region))
                  ELSE IF DifferenceOfOrdinals(stick_region, prev_stick_region)
                  THEN FindValidSdiLoop(regions, i + 1, Append(sdi_inputs, stick_region))
                  ELSE FindValidSdiLoop(regions, i + 1, sdi_inputs)

\* A scan that drops the dead-zone entries before it compares neighbours.
FindValidSdiWithoutDeadZone(self) ==
    [self EXCEPT !.sdi_inputs =
        FindValidSdiLoop(
            SelectSeq(self.stick_regions_during_hitlag, LAMBDA r : r # DEAD_ZONE),
            0, self.sdi_inputs)]

\* TakeHitData._find_valid_sdi
_find_valid_sdi(self) ==
    [self EXCEPT !.sdi_inputs =
        FindValidSdiLoop(self.stick_regions_during_hitlag, 0, self.sdi_inputs)]

\* The fields of a TakeHitData that _find_valid_sdi reads and writes.
HitlagSpan(regions) == [stick_regions_during_hitlag |-> regions, sdi_inputs |-> <<>>]

\* regions with count dead-zone entries put after entry at.
InsertDeadZone(regions, at, count) ==
    SubSeq(regions, 1, at) \o [n \in 1..count |-> DEAD_ZONE]
        \o SubSeq(regions, at + 1, Len(regions))

InitSdi ==
    /\ InitIdle
    /\ total_size = 0
    /\ skip_frames = FALSE
    /\ pc = "call"
    /\ \E len \in 2..MaxRegions : arg \in [regions : [1..len -> JoystickRegion]]
    /\ res = None
    /\ computer = None

\* The caller extracts the SDI inputs of a span and of the same span with
\* dead-zone frames after one of its frames.
FindValidSdi ==
    /\ pc = "call"
    /\ \E at \in 1..(Len(arg.regions) - 1), count \in 1..MaxInserted :
          LET inserted == InsertDeadZone(arg.regions, at, count)
          IN  res' = Some([at |-> at,
                           inserted |-> inserted,
                           sdi |-> _find_valid_sdi(HitlagSpan(arg.regions)).sdi_inputs,
                           sdi_inserted |-> _find_valid_sdi(HitlagSpan(inserted)).sdi_inputs])
    /\ pc' = "returned"
    /\ UNCHANGED <<arg, computer, idleVars>>

NextSdi == FindValidSdi

SpecSdi == InitSdi /\ [][NextSdi]_vars

\* Dead-zone entries were put between two identical regions other than the
\* dead zone.
BetweenIdentical ==
    /\ pc = "returned"
    /\ res # None
    /\ arg.regions[res[1].at] = arg.regions[res[1].at + 1]
    /\ arg.regions[res[1].at] # DEAD_ZONE

\* C21 as stated: the SDI inputs extracted from a stick-region sequence are
\* unchanged when dead-zone entries are inserted between two identical
\* regions other than the dead zone.
C21_SdiUnchangedByDeadZone ==
    BetweenIdentical => res[1].sdi_inserted = res[1].sdi

\* C21: dead-zone entries inserted between two identical regions other than
\* the dead zone add exactly one SDI input, that region (the stick leaves
\* the dead zone again), and leave the other inputs and their order as they
\* were.
C21_DeadZoneAddsOneSdi ==
    BetweenIdentical =>
        LET region == arg.regions[res[1].at]
            sdi == res[1].sdi
        IN  \E j \in 0..Len(sdi) :
               res[1].sdi_inserted =
                   SubSeq(sdi, 1, j) \o <<region>> \o SubSeq(sdi, j + 1, Len(sdi))

\* UP, UP with a dead-zone frame in between: no input before, one after.
C21_ReturnToUpCounted ==
    /\ BetweenIdentical
    /\ arg.regions = <<0, 0>>
    /\ res[1].inserted = <<0, DEAD_ZONE, 0>>
    /\ res[1].sdi = <<>>
    /\ res[1].sdi_inserted = <<0>>

(***************************************************************************)
(* l_cancel_compute                                                        *)
(***************************************************************************)
ATTACK_AIR_N == 65
ATTACK_AIR_LW == 69
LANDING_AIR_N == 70
LANDING_AIR_LW == 74

\* event.LCancel
NOT_APPLICABLE == 0
SUCCESS == 1
FAILURE == 2

\* Line 555: an input more than EarlyWindow frames early; line 557: the
\* hitlag limit; line 562: range(1, 6).
EarlyWindow == 15
HitlagWindow == 25
LateWindow == 5

LCancelFrames == 17
MaxLCancelMarked == 2

\* Frame sequences of count frames, at most marks of them other than idle.
RECURSIVE MarkedFrames(_, _, _, _)
MarkedFrames(count, letters, idle, marks) ==
    IF marks = 0 THEN {[n \in 1..count |-> idle]}
    ELSE {[fs EXCEPT ![at] = letter] :
             fs \in MarkedFrames(count, letters, idle, marks - 1),
             at \in 1..count, letter \in letters \cup {idle}}

\* common.just_input_l_cancel
just_input_l_cancel(curr_frame, prev_frame) ==
    /\ curr_frame.pre.buttons \cap {"R", "L", "Z", "TRIGGER_ANALOG"} # {}
    /\ prev_frame.pre.buttons \cap {"R", "L", "Z", "TRIGGER_ANALOG"} = {}

\* common.is_fastfalling: Field2.FASTFALL in flags[1].
is_fastfalling(flags) == "FASTFALL" \in flags

\* Lines 566-592: the aerial of a landing or aerial attack state (NAIR,
\* FAIR, BAIR, UAIR, DAIR in the order of the states), or None.
AerialMove(action_state) ==
    IF LANDING_AIR_N <= action_state /\ action_state <= LANDING_AIR_LW
    THEN Some(action_state - LANDING_AIR_N)
    ELSE IF ATTACK_AIR_N <= action_state /\ action_state <= ATTACK_AIR_LW
    THEN Some(action_state - ATTACK_AIR_N)
    ELSE None

\* LCancelData(...)
LCancelData(frame_index, stocks_remaining, move, l_cancel, trigger_input_frame, position, fastfall, during_hitlag) ==
    [frame_index |-> frame_index,
     stocks_remaining |-> stocks_remaining,
     move |-> move,
     l_cancel |-> l_cancel,
     trigger_input_frame |-> trigger_input_frame,
     position |-> position,
     fastfall |-> fastfall,
     during_hitlag |-> during_hitlag]

\* Lines 561-564: the loop over j in range(1, 6), from j; every j reads
\* player.frames[i + j].
RECURSIVE LateScan(_, _, _, _)
LateScan(fs, i, j, trigger_input_frame) ==
    IF j > LateWindow THEN [raised |-> "", trigger_input_frame |-> trigger_input_frame]
    ELSE IF ~InRange(fs, i + j)
    THEN [raised |-> "IndexError", trigger_input_frame |-> trigger_input_frame]
    ELSE LateScan(fs, i, j + 1,
            IF just_input_l_cancel(PyGet(fs, i + j), PyGet(fs, i + j - 1))
            THEN Some(j) ELSE trigger_input_frame)

\* Lines 555-558: trigger_input_frame becomes its difference to i, and is
\* dropped when that difference is above 15 and below 25 outside hitlag.
EarlyOffset(trigger_input_frame, i, during_hitlag) ==
    IF trigger_input_frame = None THEN None
    ELSE LET offset == trigger_input_frame[1] - i
         IN  IF offset > EarlyWindow /\ ~during_hitlag /\ offset < HitlagWindow
             THEN None ELSE Some(offset)

\* l_cancel_compute, lines 528-619: the loop over the frames, from frame i;
\* out is player.stats.l_cancels.
RECURSIVE LCancelLoop(_, _, _, _, _)
LCancelLoop(fs, i, trigger_input_frame, during_hitlag, out) ==
    IF i >= Len(fs) THEN [raised |-> "", out |-> out]
    ELSE LET player_frame == fs[i + 1]
             l_cancel == player_frame.post.l_cancel
             pressed == just_input_l_cancel(player_frame, PyGet(fs, i - 1))
             input_frame == IF pressed THEN Some(i) ELSE trigger_input_frame
             in_hitlag == IF pressed THEN is_in_hitlag(player_frame.post.flags)
                          ELSE during_hitlag
         IN  IF l_cancel = NOT_APPLICABLE
             THEN LCancelLoop(fs, i + 1, input_frame, in_hitlag, out)
             ELSE LET early == EarlyOffset(input_frame, i, in_hitlag)
                      did_l_cancel == l_cancel = SUCCESS
                      late == IF ~did_l_cancel /\ early # None
                              THEN LateScan(fs, i, 1, early)
                              ELSE [raised |-> "", trigger_input_frame |-> early]
                      move == AerialMove(player_frame.post.state)
                  IN  IF late.raised # ""
                      THEN [raised |-> late.raised, out |-> out]
                      ELSE IF move = None
                      THEN LCancelLoop(fs, i + 1, late.trigger_input_frame, in_hitlag, out)
                      ELSE LCancelLoop(fs, i + 1, late.trigger_input_frame, in_hitlag,
                              Append(out,
                                 LCancelData(i, player_frame.post.stocks_remaining,
                                    move[1], did_l_cancel, late.trigger_input_frame,
                                    player_frame.post.last_ground_id,
                                    is_fastfalling(PyGet(fs, i - 1).post.flags),
                                    in_hitlag)))

\* LCancels._percentage
Percentage(data, old) ==
    IF Len(data) > 0
    THEN Some((Cardinality({n \in 1..Len(data) : data[n].l_cancel}) * 100) \div Len(data))
    ELSE old

\* l_cancel_compute(player=...) for either player, as stats_compute calls
\* it; a replay older than 2.0.0 returns at once.
l_cancel_compute ==
    /\ pc = "primed"
    /\ Len(calls) < MaxPasses
    /\ \E p \in 1..2 :
          LET player == computer[1].players[p]
              pass == LCancelLoop(player.frames, 0, None, FALSE, player.stats.l_cancels)
          IN  /\ IF __lt__(ReplayVersion, <<2, 0, 0>>)
                 THEN /\ computer' = computer
                      /\ res' = Some([raised |-> ""])
                 ELSE /\ computer' = Some([computer[1] EXCEPT
                            !.players[p].stats.l_cancels = pass.out,
                            !.players[p].stats.l_cancels_percentage =
                                IF pass.raised = "" THEN Percentage(pass.out, @) ELSE @])
                      /\ res' = Some([raised |-> pass.raised])
              /\ arg' = [player |-> p]
    /\ calls' = Append(calls, "l_cancel_compute")
    /\ UNCHANGED <<pc, parserVars>>

\* What a frame can be for l_cancel_compute: standing, a press of L (in
\* hitlag or not), landing from a neutral air with the L-cancel made or
\* missed (with L pressed on the landing frame or not), a missed L-cancel
\* reported outside the aerial states.
LCancelIdle == [state |-> WAIT, buttons |-> {}, hitlag |-> FALSE, l_cancel |-> NOT_APPLICABLE]

LCancelLetters ==
    {[state |-> WAIT, buttons |-> {"L"}, hitlag |-> FALSE, l_cancel |-> NOT_APPLICABLE],
     [state |-> WAIT, buttons |-> {"L"}, hitlag |-> TRUE, l_cancel |-> NOT_APPLICABLE],
     [state |-> LANDING_AIR_N, buttons |-> {}, hitlag |-> FALSE, l_cancel |-> SUCCESS],
     [state |-> LANDING_AIR_N, buttons |-> {}, hitlag |-> FALSE, l_cancel |-> FAILURE],
     [state |-> LANDING_AIR_N, buttons |-> {"L"}, hitlag |-> FALSE, l_cancel |-> FAILURE],
     [state |-> WAIT, buttons |-> {}, hitlag |-> FALSE, l_cancel |-> FAILURE]}

InitLCancel ==
    /\ InitIdle
    /\ total_size = 0
    /\ skip_frames = FALSE
    /\ pc = "primed"
    /\ arg = [player |-> 0]
    /\ res = None
    /\ \E letters1 \in MarkedFrames(LCancelFrames, LCancelLetters, LCancelIdle,
                                    MaxLCancelMarked) :
          computer = Some(PrimedComputer(letters1,
                             [n \in 1..LCancelFrames |-> LCancelIdle]))

NextLCancel == l_cancel_compute

SpecLCancel == InitLCancel /\ [][NextLCancel]_vars

\* The frames, in order, whose post-frame L-cancel status is Success or
\* Failure.
RECURSIVE Reported(_, _)
Reported(fs, i) ==
    IF i >= Len(fs) THEN <<>>
    ELSE (IF fs[i + 1].post.l_cancel # NOT_APPLICABLE THEN <<i>> ELSE <<>>)
            \o Reported(fs, i + 1)

\* C22: l_cancel_compute appends exactly one LCancel for every frame whose
\* post-frame L-cancel status is Success or Failure, and none for a frame
\* whose status is not-applicable.
C22_OneLCancelPerReport ==
    [][FirstPass(1) =>
          LET new == computer'[1].players[1]
              reported == Reported(new.frames, 0)
          IN  /\ Len(new.stats.l_cancels) = Len(reported)
              /\ \A n \in 1..Len(reported) :
                    new.stats.l_cancels[n].frame_index = reported[n]]_vars

(***************************************************************************)
(* shield_drop_compute                                                     *)
(***************************************************************************)
GUARD_ON == 178
GUARD_SET_OFF == 181
GUARD_REFLECT == 182
PASS == 244

\* Line 658: range(1, 8), the end excluded.
ShieldLookBack == 8

ShieldFrames == 10
MaxShieldMarked == 3

\* ShieldDropData(frame_index, position, oo_shieldstun_frame)
ShieldDropData(frame_index, position, oo_shieldstun_frame) ==
    [frame_index |-> frame_index,
     position |-> position,
     oo_shieldstun_frame |-> oo_shieldstun_frame]

\* Lines 658-664: the loop over j in range(1, 8), from j, with its else
\* branch.
RECURSIVE ShieldStunScan(_, _, _)
ShieldStunScan(fs, i, j) ==
    IF j >= ShieldLookBack THEN [raised |-> "", oo_shieldstun_frame |-> None]
    ELSE IF ~InRange(fs, i - j)
    THEN [raised |-> "IndexError", oo_shieldstun_frame |-> None]
    ELSE IF PyGet(fs, i - j).post.state = GUARD_SET_OFF
    THEN [raised |-> "", oo_shieldstun_frame |-> Some(j)]
    ELSE ShieldStunScan(fs, i, j + 1)

\* shield_drop_compute, lines 641-673: the loop over the frames, from frame
\* i; out is player.stats.shield_drops.
RECURSIVE ShieldDropLoop(_, _, _)
ShieldDropLoop(fs, i, out) ==
    IF i >= Len(fs) THEN [raised |-> "", out |-> out]
    ELSE IF i = 0 THEN ShieldDropLoop(fs, i + 1, out)
    ELSE LET player_frame == fs[i + 1]
             player_state == player_frame.post.state
             prev_player_state == fs[i].post.state
             player_was_shielding ==
                 prev_player_state \in {GUARD, GUARD_ON, GUARD_REFLECT, GUARD_SET_OFF}
             scan == ShieldStunScan(fs, i, 1)
         IN  IF player_state = PASS /\ player_was_shielding
             THEN IF scan.raised # ""
                  THEN [raised |-> scan.raised, out |-> out]
                  ELSE ShieldDropLoop(fs, i + 1,
                          Append(out, ShieldDropData(i, player_frame.post.last_ground_id,
                                                     scan.oo_shieldstun_frame)))
             ELSE ShieldDropLoop(fs, i + 1, out)

\* shield_drop_compute(player=...) for either player.
shield_drop_compute ==
    /\ pc = "primed"
    /\ Len(calls) < MaxPasses
    /\ \E p \in 1..2 :
          LET player == computer[1].players[p]
              pass == ShieldDropLoop(player.frames, 0, player.stats.shield_drops)
          IN  /\ computer' = Some([computer[1] EXCEPT
                                     !.players[p].stats.shield_drops = pass.out])
              /\ res' = Some([raised |-> pass.raised])
              /\ arg' = [player |-> p]
    /\ calls' = Append(calls, "shield_drop_compute")
    /\ UNCHANGED <<pc, parserVars>>

\* What a frame can be for shield_drop_compute: holding shield, standing,
\* shield stun, dropping through the platform.
ShieldIdle == [state |-> GUARD, buttons |-> {}]

ShieldLetters ==
    {[state |-> WAIT, buttons |-> {}],
     [state |-> GUARD_SET_OFF, buttons |-> {}],
     [state |-> PASS, buttons |-> {}]}

InitShieldDrop ==
    /\ InitIdle
    /\ total_size = 0
    /\ skip_frames = FALSE
    /\ pc = "primed"
    /\ arg = [player |-> 0]
    /\ res = None
    /\ \E letters1 \in MarkedFrames(ShieldFrames, ShieldLetters, ShieldIdle,
                                    MaxShieldMarked) :
          computer = Some(PrimedComputer(letters1,
                             [n \in 1..ShieldFrames |-> ShieldIdle]))

NextShieldDrop == shield_drop_compute

SpecShieldDrop == InitShieldDrop /\ [][NextShieldDrop]_vars

\* The frames, in order, whose state is PASS while the previous frame's
\* state is Guard, GuardOn, GuardReflect or GuardSetOff.
RECURSIVE ShieldDrops(_, _)
ShieldDrops(fs, i) ==
    IF i >= Len(fs) THEN <<>>
    ELSE (IF /\ i >= 1
             /\ fs[i + 1].post.state = PASS
             /\ fs[i].post.state \in {GUARD, GUARD_ON, GUARD_REFLECT, GUARD_SET_OFF}
          THEN <<i>> ELSE <<>>) \o ShieldDrops(fs, i + 1)

\* The distance from frame i to the nearest GUARD_SET_OFF frame among the
\* window frames before it, or None.
NearestShieldStun(fs, i, window) ==
    LET found == {j \in 1..window : i - j >= 0 /\ fs[i - j + 1].post.state = GUARD_SET_OFF}
    IN  IF found = {} THEN None
        ELSE Some(CHOOSE j \in found : \A k \in found : j <= k)

\* C23: shield_drop_compute appends one ShieldDrop for each frame whose
\* state is PASS while the previous frame's state is Guard, GuardOn,
\* GuardReflect or GuardSetOff, and its oo_shieldstun_frame is the distance
\* to the nearest GUARD_SET_OFF frame among the 8 preceding frames, or
\* absent when none of those 8 frames is in GUARD_SET_OFF.
C23_ShieldDropPerPass ==
    [][FirstPass(1) =>
          LET new == computer'[1].players[1]
              drops == ShieldDrops(new.frames, 0)
          IN  /\ Len(new.stats.shield_drops) = Len(drops)
              /\ \A n \in 1..Len(drops) :
                    /\ new.stats.shield_drops[n].frame_index = drops[n]
                    /\ new.stats.shield_drops[n].oo_shieldstun_frame =
                           NearestShieldStun(new.frames, drops[n], 8)]_vars

(***************************************************************************)
(* WavedashData.__init__ (stats/stat_types.py): the angle and direction of *)
(* a wavedash.  A stick is given by theta, atan2(stick.y, stick.x) in      *)
(* whole degrees, -179 .. 180.                                             *)
(***************************************************************************)
Thetas == -179..180

\* degrees(common.get_angle(point)): (atan2(y, x) + tau) % tau, in degrees.
get_angle(point) == (point.theta + 360) % 360

\* WavedashData.__init__, lines 77-110: angle and direction from the stick.
WavedashAngle(stick) ==
    IF stick = None THEN [raised |-> "", angle |-> None, direction |-> None]
    ELSE LET angle == get_angle(stick[1])
         IN  IF angle < 270 /\ angle > 180
             THEN [raised |-> "", angle |-> Some(angle - 180), direction |-> Some("LEFT")]
             ELSE IF angle > 270 /\ angle < 360
             THEN [raised |-> "", angle |-> Some(angle - 270), direction |-> Some("RIGHT")]
             ELSE IF angle = 180
             THEN [raised |-> "", angle |-> Some(0), direction |-> Some("LEFT")]
             ELSE IF angle = 0
             THEN [raised |-> "", angle |-> Some(angle), direction |-> Some("RIGHT")]
             ELSE IF angle = 270
             THEN [raised |-> "", angle |-> Some(90), direction |-> Some("DOWN")]
             ELSE IF angle > 0 /\ angle < 90
             THEN [raised |-> "", angle |-> Some(angle * (-1)), direction |-> Some("RIGHT")]
             ELSE IF angle > 90 /\ angle < 180
             THEN [raised |-> "", angle |-> Some(angle * (-1)), direction |-> Some("LEFT")]
             ELSE IF angle = 90
             THEN [raised |-> "", angle |-> Some(angle * (-1)), direction |-> Some("DOWN")]
             ELSE [raised |-> "ValueError", angle |-> None, direction |-> None]

InitAngle ==
    /\ InitIdle
    /\ total_size = 0
    /\ skip_frames = FALSE
    /\ pc = "call"
    /\ arg \in [stick : {None} \cup {Some([theta |-> theta]) : theta \in Thetas}]
    /\ res = None
    /\ computer = None

\* WavedashData(frame_index, stick=...) is constructed.
NewWavedashData ==
    /\ pc = "call"
    /\ res' = Some(WavedashAngle(arg.stick))
    /\ pc' = "returned"
    /\ UNCHANGED <<arg, computer, idleVars>>

NextAngle == NewWavedashData

SpecAngle == InitAngle /\ [][NextAngle]_vars

\* C24: for every stick position, the angle recorded on a Wavedash is the
\* stick's angle below the horizontal and lies in [0, 90], with direction
\* Left, Right or Down: a stick pointing t degrees below the horizontal
\* yields angle t whether it points left (theta = t - 180) or right
\* (theta = -t).
C24_AngleBelowHorizontal ==
    (pc = "returned" /\ arg.stick # None) =>
        LET theta == arg.stick[1].theta
        IN  /\ res[1].raised = ""
            /\ res[1].angle # None
            /\ res[1].angle[1] \in 0..90
            /\ res[1].direction \in {Some("LEFT"), Some("RIGHT"), Some("DOWN")}
            /\ \A t \in 0..90 : theta \in {-t, t - 180} => res[1].angle[1] = t

(***************************************************************************)
(* common.is_in_hitstun, is_in_hitlag, is_fastfalling on the flags of a    *)
(* decoded post-frame: Post.flags is None when the payload ends before the *)
(* flags block.                                                            *)
(***************************************************************************)
\* common.is_in_hitstun: Field4.HITSTUN in flags[3].
is_in_hitstun(flags) == "HITSTUN" \in flags

FlagBits == {"HITSTUN", "HITLAG", "FASTFALL"}

\* Post.flags of the record Post._parse returned: the five flag bytes, of
\* which bits are set, or None.
PostFlags(record, bits) == IF record.blocks[2] = None THEN None ELSE Some(bits)

\* predicate(post.flags): flags[n] on None raises TypeError.
CallOnFlags(predicate, flags) ==
    IF flags = None THEN [raised |-> "TypeError", value |-> FALSE]
    ELSE [raised |-> "",
          value |-> CASE predicate = "is_in_hitstun" -> is_in_hitstun(flags[1])
                      [] predicate = "is_in_hitlag" -> is_in_hitlag(flags[1])
                      [] predicate = "is_fastfalling" -> is_fastfalling(flags[1])]

InitFlags ==
    /\ InitIdle
    /\ total_size = 0
    /\ skip_frames = FALSE
    /\ pc = "call"
    /\ arg \in [n : PayloadLengths, bits : SUBSET FlagBits]
    /\ res = None
    /\ computer = None

\* The post-frame is decoded and the three predicates are asked about its
\* flags.
AskFlags ==
    /\ pc = "call"
    /\ LET record == PostParse(arg.n)
           flags == PostFlags(record, arg.bits)
       IN  res' = IF record.raised THEN Some([post |-> record])
                  ELSE Some([post |-> record,
                             flags |-> flags,
                             is_in_hitstun |-> CallOnFlags("is_in_hitstun", flags),
                             is_in_hitlag |-> CallOnFlags("is_in_hitlag", flags),
                             is_fastfalling |-> CallOnFlags("is_fastfalling", flags)])
    /\ pc' = "returned"
    /\ UNCHANGED <<arg, computer, idleVars>>

NextFlags == AskFlags

SpecFlags == InitFlags /\ [][NextFlags]_vars

\* C25: is_in_hitstun, is_in_hitlag and is_fastfalling return False, rather
\* than raising, for a post-frame of an older replay that carries no state
\* flags.
C25_NoFlagsGivesFalse ==
    (pc = "returned" /\ ~res[1].post.raised /\ res[1].flags = None) =>
        \A call \in {res[1].is_in_hitstun, res[1].is_in_hitlag, res[1].is_fastfalling} :
            call.raised = "" /\ ~call.value

(***************************************************************************)
(* parse with a path (parse.py): _parse_open opens the file with os.open,  *)
(* maps it with mmap.mmap inside a with statement and parses the mapping.  *)
(* res holds the descriptors the process has open between the calls.       *)
(***************************************************************************)
MaxParseCalls == 4

\* stdin, stdout, stderr.
StandardFds == {0, 1, 2}

\* os.open and dup return the lowest descriptor that is not open.
LowestFree(open) ==
    CHOOSE fd \in 0..Cardinality(open) : fd \notin open /\ \A k \in 0..(fd - 1) : k \in open

\* What the path may name: no file, an empty file, a file that is not a
\* replay, a replay.
Sources == {"missing", "empty", "malformed", "replay"}

\* _parse_open(source, ...): os.open raises for a missing file; mmap.mmap
\* raises for an empty file, and otherwise maps a duplicate of the
\* descriptor it is given; leaving the with block closes the mapping and
\* its duplicate, whether _parse_try returned or raised.
ParseOpen(source, open) ==
    IF source = "missing" THEN [raised |-> "FileNotFoundError", open |-> open]
    ELSE LET fd == LowestFree(open)
             opened == open \cup {fd}
         IN  IF source = "empty" THEN [raised |-> "ValueError", open |-> opened]
             ELSE LET duplicate == LowestFree(opened)
                      mapped == opened \cup {duplicate}
                      closed == mapped \ {duplicate}
                  IN  [raised |-> IF source = "malformed" THEN "ParseError" ELSE "",
                       open |-> closed]

InitParseOpen ==
    /\ InitIdle
    /\ total_size = 0
    /\ skip_frames = FALSE
    /\ pc = "idle"
    /\ arg = [source |-> "none"]
    /\ res = Some([raised |-> "", open |-> StandardFds])
    /\ computer = None

\* parse(source, handlers) with a str or PathLike source.
_parse_open ==
    /\ pc = "idle"
    /\ Len(calls) < MaxParseCalls
    /\ \E source \in Sources :
          /\ arg' = [source |-> source]
          /\ res' = Some(ParseOpen(source, res[1].open))
          /\ calls' = Append(calls, source)
    /\ UNCHANGED <<pc, computer, parserVars>>

NextParseOpen == _parse_open

SpecParseOpen == InitParseOpen /\ [][NextParseOpen]_vars

\* C26: when parse is given a path, everything it opens to map the file is
\* released by the time parse returns or raises, on every exit path, so
\* repeated parse calls do not accumulate open file resources.
C26_ParseReleasesFile ==
    [][calls' # calls => res'[1].open = res[1].open]_vars

(***************************************************************************)
(* get_stats (stats/stats_computer.py): every replay of a directory is     *)
(* computed by a worker process (_eef), and the parent folds the results   *)
(* into five tables in the order the workers complete.  arg is the         *)
(* directory, calls the files folded so far, res the parent's tables.      *)
(***************************************************************************)
BatchSize == 3

\* Data.__iter__: the containers a Data yields, in order.
Containers == <<"wavedashes", "dashes", "techs", "take_hits", "l_cancels">>

\* What a replay file of the directory can be: not a replay, a game that
\* has not two players, a game without the connect code, a game of the
\* player with no event, with one wavedash, with one dash.
ReplayKinds ==
    {"malformed", "three players", "other players", "quiet", "wavedash", "dash"}

\* The stats a worker computes for a file: per container, the files of its
\* rows.  A DashData holds the name of the facing direction, a str.
StatsOf(file, kind) ==
    [c \in 1..Len(Containers) |->
        IF \/ (Containers[c] = "wavedashes" /\ kind = "wavedash")
           \/ (Containers[c] = "dashes" /\ kind = "dash")
        THEN <<file>> ELSE <<>>]

\* _eef(file, connect_code): the future's exception, or its result
\* (thing, file).
_eef(file, kind) ==
    IF kind = "malformed" THEN [exception |-> "ParseError", data |-> None]
    ELSE IF kind \in {"three players", "other players"}
    THEN [exception |-> "", data |-> None]
    ELSE [exception |-> "", data |-> Some(StatsOf(file, kind))]

\* item.to_polars() of container c: Dashes.to_polars reads
\* stat.direction.name of every row, where direction is a str.
to_polars(c, rows) ==
    IF Containers[c] = "dashes" /\ rows # <<>>
    THEN [raised |-> "AttributeError", df |-> <<>>]
    ELSE [raised |-> "", df |-> rows]

\* Lines 793-800: the loop over the containers of a result, from c.
RECURSIVE FoldResult(_, _, _)
FoldResult(thing, data, c) ==
    IF c > Len(Containers) THEN [raised |-> "", thing |-> thing]
    ELSE LET frame == to_polars(c, data[c])
         IN  IF frame.raised # "" THEN [raised |-> frame.raised, thing |-> thing]
             ELSE FoldResult([thing EXCEPT ![c] = @ \o frame.df], data, c + 1)

InitGetStats ==
    /\ InitIdle
    /\ total_size = 0
    /\ skip_frames = FALSE
    /\ pc = "as_completed"
    /\ arg \in [directory : [1..BatchSize -> ReplayKinds]]
    /\ res = Some([raised |-> "", thing |-> [c \in 1..Len(Containers) |-> <<>>]])
    /\ computer = None

\* One turn of the loop over as_completed(futures): any future that has not
\* been handed out yet may be the next to complete.
as_completed ==
    /\ pc = "as_completed"
    /\ \E file \in 1..BatchSize :
          /\ \A n \in 1..Len(calls) : calls[n] # file
          /\ calls' = Append(calls, file)
          /\ LET future == _eef(file, arg.directory[file])
             IN  IF future.exception # "" \/ future.data = None
                 THEN UNCHANGED <<pc, res>>
                 ELSE LET folded == FoldResult(res[1].thing, future.data[1], 1)
                      IN  /\ res' = Some(folded)
                          /\ pc' = IF folded.raised # "" THEN "raised" ELSE pc
    /\ UNCHANGED <<arg, computer, parserVars>>

\* Lines 802-811: the futures are exhausted; item.sort(...) builds a sorted
\* copy that is dropped, and the tables are returned as they are.
get_stats_return ==
    /\ pc = "as_completed"
    /\ Len(calls) = BatchSize
    /\ pc' = "returned"
    /\ UNCHANGED <<arg, res, computer, calls, parserVars>>

NextGetStats == as_completed \/ get_stats_return

SpecGetStats == InitGetStats /\ [][NextGetStats]_vars

\* The files whose worker returns the player's stats.
Computed == {file \in 1..BatchSize : _eef(file, arg.directory[file]).data # None}

\* The rows of container c of a file are in table c.
Present(file, c) ==
    \A n \in 1..Len(StatsOf(file, arg.directory[file])[c]) :
        \E m \in 1..Len(res[1].thing[c]) :
            res[1].thing[c][m] = StatsOf(file, arg.directory[file])[c][n]

\* C27: get_stats treats every replay independently: a replay whose worker
\* fails is skipped without aborting the batch (get_stats returns), and the
\* records of every other replay are present in the returned tables,
\* whatever the order in which the workers finish.
C27_BatchSurvivesFailures ==
    /\ pc # "raised"
    /\ pc = "returned" =>
          \A file \in Computed : \A c \in 1..Len(Containers) : Present(file, c)

(***************************************************************************)
(* The trigger_input_frame of the LCancels of a pass (SpecLCancel).        *)
(***************************************************************************)
\* Frame p is an unpressed-to-pressed transition of L, R, Z or the analog
\* trigger; a button held on the first frame counts as pressed there.
IsPress(fs, p) ==
    /\ fs[p + 1].pre.buttons \cap {"R", "L", "Z", "TRIGGER_ANALOG"} # {}
    /\ p >= 1 => fs[p].pre.buttons \cap {"R", "L", "Z", "TRIGGER_ANALOG"} = {}

\* The presses at or before frame i, and the most recent of them.
EarlyPresses(fs, i) == {p \in 0..i : IsPress(fs, p)}

LastPress(fs, i) == CHOOSE p \in EarlyPresses(fs, i) : \A q \in EarlyPresses(fs, i) : q <= p

\* The presses on the 5 frames after frame i.
LatePresses(fs, i) == {p \in (i + 1)..(i + 5) : p < Len(fs) /\ IsPress(fs, p)}

\* A press on frame p counts for a landing on frame i: it is at most 15
\* frames early, or it was made during hitlag.
Attributable(fs, p, i) == i - p <= 15 \/ is_in_hitlag(fs[p + 1].post.flags)

\* C28: the trigger_input_frame recorded on every LCancel, the second and
\* later ones of a game included, is either absent or the signed offset
\* (press frame minus landing frame) of the most recent unpressed-to-pressed
\* transition, and a press more than 15 frames before the landing is not
\* attributed unless it occurred during hitlag.
C28_TriggerInputFrame ==
    [][FirstPass(1) =>
          LET new == computer'[1].players[1]
              fs == new.frames
          IN  \A n \in 1..Len(new.stats.l_cancels) :
                 LET i == new.stats.l_cancels[n].frame_index
                     offset == new.stats.l_cancels[n].trigger_input_frame
                 IN  \/ offset = None
                     \/ /\ offset[1] <= 0
                        /\ EarlyPresses(fs, i) # {}
                        /\ offset[1] = LastPress(fs, i) - i
                        /\ Attributable(fs, LastPress(fs, i), i)
                     \/ /\ offset[1] > 0
                        /\ i + offset[1] \in LatePresses(fs, i)]_vars

\* C29: the forward scan for a late L-cancel input (up to 5 frames after
\* the landing frame) is performed exactly when no earlier press was
\* attributed and the status is Failure; when an early press was found, its
\* offset is kept and not replaced by a later press.
C29_LateScanOnlyWithoutEarlyPress ==
    [][FirstPass(1) =>
          LET new == computer'[1].players[1]
              fs == new.frames
          IN  \A n \in 1..Len(new.stats.l_cancels) :
                 LET i == new.stats.l_cancels[n].frame_index
                     offset == new.stats.l_cancels[n].trigger_input_frame
                     early == /\ EarlyPresses(fs, i) # {}
                              /\ Attributable(fs, LastPress(fs, i), i)
                 IN  /\ early => offset = Some(LastPress(fs, i) - i)
                     /\ (~early /\ ~new.stats.l_cancels[n].l_cancel
                            /\ LatePresses(fs, i) # {}) =>
                           /\ offset # None
                           /\ i + offset[1] \in LatePresses(fs, i)
                     /\ (~early /\ new.stats.l_cancels[n].l_cancel) => offset = None]_vars

\* C30: every frame a detector reads lies inside the player's frame
\* sequence: the look-backs never reach before the first frame and the
\* L-cancel look-ahead never reaches past the last frame, so the pass of
\* l_cancel_compute runs to completion on every frame sequence.
C30_ReadsStayInsideFrames ==
    [][FirstPass(1) => res'[1].raised = ""]_vars

(***************************************************************************)
(* take_hit_compute over frames whose joystick is anywhere on the stick    *)
(* grid.                                                                   *)
(***************************************************************************)
StickFrames == 4
MaxStickMarked == 2
MaxStick == 2

\* Stick positions: each coordinate from full tilt one way to full tilt the
\* other, the dead zone being the positions with both below StickThreshold.
Sticks == [x : -MaxStick..MaxStick, y : -MaxStick..MaxStick]

StickIdle ==
    [state |-> WAIT, buttons |-> {}, hitlag |-> FALSE, percent |-> 0,
     stick |-> [x |-> 0, y |-> 0]]

StickLetters ==
    [state : {WAIT}, buttons : {{}}, hitlag : BOOLEAN, percent : 0..MaxPercent,
     stick : Sticks] \ {StickIdle}

\* Player 1 has at most MaxStickMarked frames other than standing at 0
\* percent with the stick at rest; player 2 stands.
InitTakeHitStick ==
    /\ InitIdle
    /\ total_size = 0
    /\ skip_frames = FALSE
    /\ pc = "primed"
    /\ arg = [player |-> 0]
    /\ res = None
    /\ \E letters1 \in MarkedFrames(StickFrames, StickLetters, StickIdle, MaxStickMarked) :
          computer = Some(PrimedComputer(letters1, [n \in 1..StickFrames |-> StickIdle]))

NextTakeHitStick == take_hit_compute

SpecTakeHitStick == InitTakeHitStick /\ [][NextTakeHitStick]_vars

\* The pre-frame joysticks of a player's frames.
JoysticksOf(player) ==
    [n \in 1..Len(player.frames) |-> player.frames[n].pre.joystick]

\* C31: take_hit_compute does not modify the frames it reads: after a pass
\* the pre-frame joystick x and y of every frame of both players are what
\* they were before the pass.
C31_TakeHitLeavesFrames ==
    [][calls' # calls =>
          \A p \in 1..2 :
             JoysticksOf(computer'[1].players[p]) = JoysticksOf(computer[1].players[p])]_vars

\* C32: after any sequence of frame deliveries that Game's frame collector
\* accepts without error, whatever the delivered indices, the frame stored
\* at position i has index i - 123: the stored indices are contiguous from
\* -123.
C32_StoredIndicesContiguous ==
    pc = "collect" =>
        \A i \in 0..(Len(frames) - 1) : frames[i + 1].index = i + FIRST_FRAME_INDEX

\* C33: for a non-zero declared length, event parsing continues until both
\* a GameEnd event has been handled and bytes_read equals the declared
\* length; neither condition alone ends it.
C33_LoopEndsOnEndAndLength ==
    (pc = "metadata" /\ total_size # 0) => (end # None /\ bytes_read = total_size)

(***************************************************************************)
(* tech_compute over tech rolls: the player rolls forward or backward,     *)
(* facing either way, left of, at or right of the opponent.                *)
(***************************************************************************)
RollFrames == 4
MaxRollMarked == 2
MaxRollX == 1

RollIdle == [state |-> WAIT, buttons |-> {}, x |-> 0, facing |-> 1]

RollLetters ==
    [state : {PASSIVE_STAND_F, PASSIVE_STAND_B, DOWN_FOWARD_U, DOWN_BACK_U},
     buttons : {{}}, x : -MaxRollX..MaxRollX, facing : {-1, 1}]

\* Player 1 has at most MaxRollMarked frames of a roll; player 2 stands at
\* x = 0.
InitTechRoll ==
    /\ InitIdle
    /\ total_size = 0
    /\ skip_frames = FALSE
    /\ pc = "primed"
    /\ arg = [player |-> 0]
    /\ res = None
    /\ \E letters1 \in MarkedFrames(RollFrames, RollLetters, RollIdle, MaxRollMarked) :
          computer = Some(PrimedComputer(letters1, [n \in 1..RollFrames |-> RollIdle]))

NextTechRoll == tech_compute

SpecTechRoll == InitTechRoll /\ [][NextTechRoll]_vars

\* The frame on which the tech that began on frame i was last classified:
\* the last frame of its run of tech states whose state differs from the
\* frame before it.
ClassifiedAt(fs, i) ==
    LET run == {k \in i..(Len(fs) - 1) :
                   \A j \in i..k : is_teching(fs[j + 1].post.state)}
        changes == {k \in run : fs[k + 1].post.state # fs[k].post.state}
    IN  CHOOSE k \in changes : \A q \in changes : q <= k

\* C34: for a tech roll classified as left or right, towards_opponent is
\* true exactly when the roll travels in the direction of the opponent at
\* the frame the roll is classified: a left roll with the opponent's x below
\* the player's, or a right roll with the opponent's x above the player's.
C34_TowardsOpponent ==
    [][FirstPass(1) =>
          LET new == computer'[1].players[1]
              fs == new.frames
              ofs == computer'[1].players[2].frames
          IN  \A n \in 1..Len(new.stats.techs) :
                 LET tech == new.stats.techs[n]
                     k == ClassifiedAt(fs, tech.frame_index)
                     left == tech.tech_type \in {Some("TECH_LEFT"),
                                                 Some("MISSED_TECH_ROLL_LEFT")}
                     right == tech.tech_type \in {Some("TECH_RIGHT"),
                                                  Some("MISSED_TECH_ROLL_RIGHT")}
                     opponent_x == ofs[k + 1].post.position.x
                     player_x == fs[k + 1].post.position.x
                 IN  (left \/ right) =>
                        tech.towards_opponent =
                            Some(\/ left /\ opponent_x < player_x
                                 \/ right /\ opponent_x > player_x)]_vars

(***************************************************************************)
(* common.get_post_di_angle: the knockback angle after DI.  Angles are in  *)
(* whole degrees; the function holds them in radians, and a comparison of  *)
(* a radian value with a number is made on the radian value.               *)
(***************************************************************************)
\* a > n for an angle of a degrees held in radians: a * pi / 180 > n, with
\* pi as 355 / 113.
RadiansAbove(a, n) == a * 355 > n * 180 * 113

\* Lines 449-461: the difference of the two angles as the function leaves
\* it, and whether the offset is negated.  sin(angle_diff) is 0 when the
\* difference is a multiple of 180 degrees.
get_post_di_angle(joystick, knockback) ==
    LET kb_angle == get_angle(knockback)
        joystick_angle == get_angle(joystick)
        raw_diff == kb_angle - joystick_angle
        angle_diff == IF RadiansAbove(raw_diff, 180) THEN raw_diff - 360 ELSE raw_diff
        perp_is_zero == angle_diff % 180 = 0 \/ joystick.magnitude = 0
    IN  [angle_diff |-> angle_diff,
         offset_is_zero |-> perp_is_zero,
         negated |-> RadiansAbove(angle_diff, -180) /\ angle_diff < 0]

\* Knockback and stick angles a call is made with.
DiThetas == {t \in Thetas : t % 15 = 0}

InitPostDi ==
    /\ InitIdle
    /\ total_size = 0
    /\ skip_frames = FALSE
    /\ pc = "call"
    /\ arg \in [joystick : [theta : DiThetas, magnitude : 0..1],
                knockback : [theta : DiThetas]]
    /\ res = None
    /\ computer = None

CallPostDiAngle ==
    /\ pc = "call"
    /\ res' = Some(get_post_di_angle(arg.joystick, arg.knockback))
    /\ pc' = "returned"
    /\ UNCHANGED <<arg, computer, idleVars>>

NextPostDi == CallPostDiAngle

SpecPostDi == InitPostDi /\ [][NextPostDi]_vars

\* The difference of two angles in degrees, normalized to (-180, 180].
NormalizedDiff(kb, stick) ==
    LET d == (kb - stick) % 360
    IN  IF d > 180 THEN d - 360 ELSE d

\* C35: in the post-DI angle computation the offset is applied with negative
\* sign exactly when the knockback-minus-stick angle difference, normalized
\* to (-pi, pi], lies in (-pi, 0), for all pairs of knockback and stick
\* angles, those whose raw difference wraps past +-pi included.
C35_OffsetSign ==
    (pc = "returned" /\ ~res[1].offset_is_zero) =>
        LET diff == NormalizedDiff(arg.knockback.theta, arg.joystick.theta)
        IN  res[1].negated <=> (-180 < diff /\ diff < 0)

\* The steps back from frame i, within the look-back of wavedash_compute and
\* the frame sequence, at which L or R is held.
AirdodgePresses(fs, i) ==
    {j \in 0..(LookBack - 1) :
        i - j >= 0 /\ fs[i - j + 1].pre.buttons \cap {"R", "L"} # {}}

\* C36: the airdodge_frames of a Wavedash is the distance from the landing
\* frame to the first frame, scanning back from the landing over at most 5
\* frames, whose physical buttons contain L or R.
C36_AirdodgeFramesFirstPress ==
    [][FirstPass(1) =>
          LET new == computer'[1].players[1]
              fs == new.frames
          IN  \A n \in 1..Len(new.stats.wavedashes) :
                 LET w == new.stats.wavedashes[n]
                     presses == AirdodgePresses(fs, w.frame_index)
                 IN  /\ presses # {}
                     /\ \A j \in presses : w.airdodge_frames <= j
                     /\ w.airdodge_frames \in presses]_vars

(***************************************************************************)
(* prime_replay on a computer that is already primed.                      *)
(***************************************************************************)
\* The games a computer is primed with again: those without an End record
\* that a new computer is primed with successfully.
SecondGames ==
    {g \in Games : g.end = None /\ PrimeReplay(<<>>, g).raised = ""}

\* prime_replay(replay) on a primed computer: self.players is the list the
\* first call filled.
prime_replay_again ==
    /\ pc = "primed"
    /\ \E game \in SecondGames :
          LET primed == PrimeReplay(computer[1].players, game)
          IN  /\ computer' = Some([computer[1] EXCEPT !.players = primed.players,
                                                      !.replay = Some(game)])
              /\ res' = Some([raised |-> primed.raised, player |-> None])
              /\ arg' = [arg EXCEPT !.game = game]
    /\ pc' = "primed again"
    /\ UNCHANGED idleVars

NextReprime ==
    \/ prime_replay
    \/ prime_replay_again

SpecReprime == InitComputer /\ [][NextReprime]_vars

\* C38: prime_replay on a computer that has already been primed replaces
\* the previous binding: afterwards players holds exactly the two players
\* of the newly primed replay and the call succeeds.
C38_ReprimeReplaces ==
    pc = "primed again" =>
        /\ res[1].raised = ""
        /\ computer[1].players = PrimeReplay(<<>>, arg.game).players

(***************************************************************************)
(* Claims about the step from a diagonal to a cardinal in _find_valid_sdi  *)
(***************************************************************************)
Diagonals == {UP_RIGHT, DOWN_RIGHT, DOWN_LEFT, UP_LEFT}
Cardinals == {UP, RIGHT, DOWN, LEFT}

\* The two cardinals a diagonal is made of: its neighbours on the circle.
Components(diagonal) == {diagonal - 1, (diagonal + 1) % 8}

\* C39: for a stick-region change from a diagonal to a cardinal during
\* hitlag, the cardinal counts as an SDI input exactly when it is not one of
\* the two components of the diagonal, for all 16 diagonal/cardinal pairs:
\* the SDI inputs of a span that ends with such a change are those of the
\* span without its last frame, followed by the cardinal when it counts.
C39_DiagonalToCardinal ==
    pc = "returned" =>
        LET regions == arg.regions
            n == Len(regions)
            before == _find_valid_sdi(HitlagSpan(SubSeq(regions, 1, n - 1))).sdi_inputs
        IN  (regions[n - 1] \in Diagonals /\ regions[n] \in Cardinals) =>
               res[1].sdi = before \o (IF regions[n] \in Components(regions[n - 1])
                                       THEN <<>> ELSE <<regions[n]>>)

\* UP_LEFT then UP, the pair whose ordinals differ by 7: no SDI input.
C39_UpLeftToUpNotCounted ==
    /\ pc = "returned"
    /\ arg.regions = <<UP_LEFT, UP>>
    /\ res[1].sdi = <<>>

(***************************************************************************)
(* The row order of the tables get_stats returns (SpecGetStats).           *)
(***************************************************************************)
\* The date_time of a row: the files of the directory are numbered in the
\* order of their dates, and a row carries the date of its file.
DateTime(row) == row

\* C40: the tables returned by get_stats are sorted by date_time, so their
\* row order does not depend on the order in which the worker processes
\* complete.
C40_TablesSortedByDate ==
    pc = "returned" =>
        \A c \in 1..Len(Containers) :
           \A m, n \in 1..Len(res[1].thing[c]) :
              m < n => DateTime(res[1].thing[c][m]) <= DateTime(res[1].thing[c][n])

(***************************************************************************)
(* stats_compute: every detector for every player of the primed computer.  *)
(***************************************************************************)
\* Lines 155-164: the detectors stats_compute calls for a player, in order.
Detectors == <<"wavedash", "dash", "tech", "take_hit", "l_cancel">>

\* One of the detectors for players[p] of computer c, with the other player
\* as opponent: the error it raised ("" for none) and the computer as it
\* leaves it.
DetectorPass(name, c, p) ==
    CASE name = "wavedash" ->
            LET pass == WavedashLoop(c.players[p].frames, 0, c._wavedash_state,
                                     c.players[p].stats.wavedashes)
            IN  [raised |-> pass.raised,
                 computer |-> [c EXCEPT !._wavedash_state = pass.state,
                                        !.players[p].stats.wavedashes = pass.out]]
      [] name = "dash" ->
            LET pass == DashLoop(c.players[p].frames, 0, c._dash_state,
                                 c.players[p].stats.dashes)
            IN  [raised |-> pass.raised,
                 computer |-> [c EXCEPT !._dash_state = pass.state,
                                        !.players[p].stats.dashes = pass.out]]
      [] name = "tech" ->
            LET pass == TechLoop(c.players[p].frames, c.players[3 - p].frames, 0,
                                 None, c.players[p].stats.techs)
            IN  [raised |-> pass.raised,
                 computer |-> [c EXCEPT !._tech_state = pass.state,
                                        !.players[p].stats.techs = pass.out]]
      [] name = "take_hit" ->
            LET pass == TakeHitLoop(c.players[p].frames, c.players[3 - p].frames, 0,
                                    c._take_hit_state, c.players[p].stats.take_hits)
            IN  [raised |-> pass.raised,
                 computer |-> [c EXCEPT !._take_hit_state = pass.state,
                                        !.players[p].stats.take_hits = pass.out,
                                        !.players[p].frames = pass.frames]]
      [] name = "l_cancel" ->
            LET pass == LCancelLoop(c.players[p].frames, 0, None, FALSE,
                                    c.players[p].stats.l_cancels)
            IN  [raised |-> pass.raised,
                 computer |-> [c EXCEPT
                                 !.players[p].stats.l_cancels = pass.out,
                                 !.players[p].stats.l_cancels_percentage =
                                     IF pass.raised = ""
                                     THEN Percentage(pass.out, @) ELSE @]]

\* Lines 154-164: the detectors for players[p] from the k-th on, after r,
\* the outcome so far; an error raised by one of them ends the call.
RECURSIVE RunDetectors(_, _, _)
RunDetectors(r, p, k) ==
    IF k > Len(Detectors) \/ r.raised # "" THEN r
    ELSE CHOOSE done \in {RunDetectors(next, p, k + 1) :
                            next \in {DetectorPass(Detectors[k], r.computer, p)}} : TRUE

\* stats_compute() without identifier: permutations(self.players) gives
\* (players[0], players[1]) and then (players[1], players[0]).
stats_compute ==
    /\ pc = "primed"
    /\ Len(calls) < MaxPasses
    /\ \E first \in {RunDetectors([raised |-> "", computer |-> computer[1]], 1, 1)} :
       \E second \in {RunDetectors(first, 2, 1)} :
          /\ computer' = Some(second.computer)
          /\ res' = Some([raised |-> second.raised])
    /\ arg' = [player |-> 0]
    /\ calls' = Append(calls, "stats_compute")
    /\ UNCHANGED <<pc, parserVars>>

NextStatsCompute == stats_compute

SpecStatsCompute == InitWavedash /\ [][NextStatsCompute]_vars

\* The event lists of the players of a computer.
EventLists(c) == [p \in 1..2 |-> c.players[p].stats]

\* C37: running stats_compute a second time on the same primed computer
\* leaves each player's event lists equal to those after the first run: no
\* event is recorded twice.
C37_SecondRunAddsNothing ==
    [][(calls = <<"stats_compute">> /\ calls' # calls) =>
          EventLists(computer'[1]) = EventLists(computer[1])]_vars

=============================================================================
